---------------------------- MODULE Spec2Model ----------------------------
(***************************************************************************)
(* Model of the VALR loan re-lending function: the fixed-point Decimal     *)
(* layer (src/utils/decimal.ts), the retrying ValrClient transport         *)
(* (src/utils/valr-client.ts) and the two-phase plan/execute handler       *)
(* (src/functions/manage-loans.ts).                                        *)
(*                                                                         *)
(* Texts (amount strings, header values) are sequences of one-character    *)
(* strings.  A Decimal's integer `value` (a count of 10^-scale units) is   *)
(* kept as the pair whole/frac with value = whole * 10^scale + frac,       *)
(* because TLC's integers are 32 bits wide and 100 ZAR at scale 8 is       *)
(* 10^10 units.  Amounts are non-negative.  The arithmetic is the exact    *)
(* one wherever the IEEE doubles of the source give the exact result on    *)
(* the amounts and ratios the specifications draw from; where they do not  *)
(* (the floor of truncateToDecimalPlaces) the model follows the doubles.   *)
(***************************************************************************)
EXTENDS Integers, Sequences, FiniteSets, TLC

(***************************************************************************)
(* Generic helpers                                                         *)
(***************************************************************************)
Min(a, b) == IF a < b THEN a ELSE b

Max(a, b) == IF a > b THEN a ELSE b

RECURSIVE Pow10(_)
Pow10(n) == IF n = 0 THEN 1 ELSE 10 * Pow10(n - 1)

RECURSIVE Pow2(_)
Pow2(n) == IF n = 0 THEN 1 ELSE 2 * Pow2(n - 1)

Range(s) == {s[i] : i \in 1..Len(s)}

\* The record (or map) without any key.
NoEntries == [c \in {} |-> <<>>]

DigitChars == <<"0", "1", "2", "3", "4", "5", "6", "7", "8", "9">>

IsDigit(c) == c \in Range(DigitChars)

DigitVal(c) == (CHOOSE i \in 1..10 : DigitChars[i] = c) - 1

\* The longest prefix of text made of digits only.
RECURSIVE DigitPrefix(_)
DigitPrefix(text) ==
    IF text = <<>> \/ ~IsDigit(Head(text)) THEN <<>>
    ELSE <<Head(text)>> \o DigitPrefix(Tail(text))

\* The number a sequence of digits spells (0 for the empty sequence).
RECURSIVE DigitsToInt(_)
DigitsToInt(ds) ==
    IF ds = <<>> THEN 0
    ELSE 10 * DigitsToInt(SubSeq(ds, 1, Len(ds) - 1)) + DigitVal(ds[Len(ds)])

\* Number.prototype.toString of a non-negative integer.
RECURSIVE IntToText(_)
IntToText(n) ==
    IF n < 10 THEN <<DigitChars[n + 1]>>
    ELSE IntToText(n \div 10) \o <<DigitChars[(n % 10) + 1]>>

\* n written with exactly `width` digits, zero padded on the left.
RECURSIVE PadDigits(_, _)
PadDigits(n, width) ==
    IF width = 0 THEN <<>>
    ELSE PadDigits(n \div 10, width - 1) \o <<DigitChars[(n % 10) + 1]>>

(***************************************************************************)
(* JavaScript number parsing                                               *)
(***************************************************************************)
NaN == [nan |-> TRUE]

\* parseFloat on texts over digits, '.' and other characters: the longest
\* prefix of the shape digits [ '.' digits ] with at least one digit; NaN
\* when there is none.  Whatever follows the prefix is ignored.
ParseFloat(text) ==
    LET ip   == DigitPrefix(text)
        rest == SubSeq(text, Len(ip) + 1, Len(text))
        fp   == IF rest # <<>> /\ Head(rest) = "." THEN DigitPrefix(Tail(rest)) ELSE <<>>
    IN  IF ip = <<>> /\ fp = <<>> THEN NaN
        ELSE [nan |-> FALSE, int |-> ip, frac |-> fp]

\* parseInt(text) in base 10 on the same alphabet: the leading digits, NaN
\* when the text does not start with a digit.
ParseInt(text) ==
    LET ip == DigitPrefix(text)
    IN  IF ip = <<>> THEN NaN ELSE [nan |-> FALSE, n |-> DigitsToInt(ip)]

(***************************************************************************)
(* Decimal (src/utils/decimal.ts)                                          *)
(***************************************************************************)
DEFAULT_SCALE == 8

InvalidDecimal == [err |-> "Invalid decimal value"]

IsDecimal(d) == "whole" \in DOMAIN d

\* Carry of frac into whole, so that 0 <= frac < 10^scale.
Normalize(whole, frac, scale) ==
    [whole |-> whole + frac \div Pow10(scale), frac |-> frac % Pow10(scale), scale |-> scale]

\* An amount of more than 2^25 with eight fractional digits.
TLarge ==
    <<"3", "3", "5", "5", "4", "4", "3", "5", ".", "1", "9", "5", "7", "7", "9", "3", "2">>

\* parseFloat gives the double nearest to the text and num * multiplier is
\* rounded to a double again.  From 2^25 on, doubles lie further apart than
\* 10^-8 allows for, and for these texts and scales, and for no other text
\* the model parses, Math.round(num * multiplier) is one unit above the
\* text's value (33554435.19577932 gives 3355443519577933).
ParseFallsHigh == { <<TLarge, 8>> }

\* new Decimal(value: string, scale): Math.round(parseFloat(value) * 10^scale),
\* or the thrown error when parseFloat gives NaN.  Math.round rounds half up.
Decimal(text, scale) ==
    LET p == ParseFloat(text)
    IN  IF p.nan THEN InvalidDecimal
        ELSE LET kept    == SubSeq(p.frac, 1, Min(Len(p.frac), scale))
                 padded  == DigitsToInt(kept) * Pow10(scale - Len(kept))
                 roundUp == IF Len(p.frac) > scale /\ DigitVal(p.frac[scale + 1]) >= 5
                            THEN 1 ELSE 0
                 high    == IF <<text, scale>> \in ParseFallsHigh THEN 1 ELSE 0
             IN  Normalize(DigitsToInt(p.int), padded + roundUp + high, scale)

\* Decimal.fromString / parseFinancialAmount
parseFinancialAmount(text) == Decimal(text, DEFAULT_SCALE)

ScaleMismatch == [err |-> "different scales"]

\* A faulty add that returns the amount it was called on.
DecimalAddNothing(a, b) == a

\* A faulty check that lets every pair of scales through.
ScalesDifferNever(a, b) == FALSE

\* this.scale !== other.scale, the guard of add and of both comparisons
ScalesDiffer(a, b) == a.scale # b.scale

\* Decimal.add
DecimalAdd(a, b) ==
    IF ScalesDiffer(a, b) THEN ScaleMismatch
    ELSE Normalize(a.whole + b.whole, a.frac + b.frac, a.scale)

\* A faulty comparison with its operands the wrong way round.
isLessThanReversed(a, b) ==
    \/ b.whole < a.whole
    \/ b.whole = a.whole /\ b.frac < a.frac

\* Decimal.isLessThan (on equal scales)
isLessThan(a, b) ==
    \/ a.whole < b.whole
    \/ a.whole = b.whole /\ a.frac < b.frac

\* Decimal.isGreaterThan (on equal scales)
isGreaterThan(a, b) ==
    \/ a.whole > b.whole
    \/ a.whole = b.whole /\ a.frac > b.frac

CompareMismatch == [err |-> "Cannot compare decimals with different scales"]

\* Decimal.isGreaterThan with its guard: the thrown error or the answer.
DecimalIsGreaterThan(a, b) ==
    IF ScalesDiffer(a, b) THEN CompareMismatch ELSE [value |-> isGreaterThan(a, b)]

\* Decimal.isLessThan with its guard: the thrown error or the answer.
DecimalIsLessThan(a, b) ==
    IF ScalesDiffer(a, b) THEN CompareMismatch ELSE [value |-> isLessThan(a, b)]

\* Decimal.multiply(factor) for a factor num/den: Math.round(value * factor).
\* The product is divided limb by limb (10^scale = lo * hi) to stay within
\* 32 bits: value*num/den = whole*num/den * 10^scale + frac*num/den.
multiply(a, ratio) ==
    LET n    == ratio.num
        d    == ratio.den
        hiP  == Pow10(a.scale \div 2)
        loP  == Pow10(a.scale - a.scale \div 2)
        qa   == (a.whole * n) \div d
        ra   == (a.whole * n) % d
        q1   == (ra * hiP) \div d
        r1   == (ra * hiP) % d
        q2   == (r1 * loP) \div d
        r2   == (r1 * loP) % d
        fh   == a.frac \div loP
        fl   == a.frac % loP
        q3   == (fh * n) \div d
        r3   == (fh * n) % d
        q4   == (r3 * loP + fl * n) \div d
        r4   == (r3 * loP + fl * n) % d
        rem  == (r2 + r4) % d
        up   == IF 2 * rem >= d THEN 1 ELSE 0
        low  == (q1 + q3) * loP + q2 + q4 + (r2 + r4) \div d + up
    IN  Normalize(qa, low, a.scale)

\* Number.prototype.toFixed(places) of the number a Decimal holds, cut (not
\* rounded) to `places` fractional digits when places < scale.
FixedText(whole, frac, scale, places) ==
    LET digits == PadDigits(frac, scale)
        shown  == IF places <= scale THEN SubSeq(digits, 1, places)
                  ELSE digits \o [i \in 1..(places - scale) |-> "0"]
    IN  IntToText(whole) \o (IF places = 0 THEN <<>> ELSE <<".">> \o shown)

\* Whether text[i..] matches the regular expression \.?0+$
MatchesTrailingZeros(text, i) ==
    LET j == IF text[i] = "." THEN i + 1 ELSE i
    IN  /\ j <= Len(text)
        /\ \A k \in j..Len(text) : text[k] = "0"

\* String.prototype.replace(/\.?0+$/, ''): the leftmost match is removed.
StripTrailingZeros(text) ==
    LET starts == {i \in 1..Len(text) : MatchesTrailingZeros(text, i)}
    IN  IF starts = {} THEN text
        ELSE SubSeq(text, 1, (CHOOSE i \in starts : \A k \in starts : i <= k) - 1)

\* Decimal.toString
toString(a) == StripTrailingZeros(FixedText(a.whole, a.frac, a.scale, a.scale))

\* Math.floor(num * multiplier) is computed on doubles.  For these amounts
\* (whole part, fraction in units of 10^-8) and places, and for no other
\* amount the model's inputs lead to, num * multiplier stands for a whole
\* number and comes out just below it (1.15 * 100 is 114.99999999999999), so
\* that the floor is one less.
ProductFallsShort ==
    { <<0, 3, 8>>, <<0, 12, 8>>, <<0, 6173, 8>>, <<0, 12346, 8>>,
      <<0, 14500000, 5>>, <<0, 14500000, 8>>,
      <<0, 29000000, 2>>, <<0, 29000000, 5>>, <<0, 29000000, 8>>,
      <<0, 57500000, 5>>, <<0, 57500000, 8>>,
      <<1, 15000000, 2>>, <<1, 15000000, 5>>, <<1, 15000000, 8>>,
      <<1, 23999000, 5>> }

\* The amount less one unit of the last of `places` fractional digits.
OneUnitLess(a, places) ==
    LET step == Pow10(a.scale - places)
    IN  IF a.frac >= step THEN [a EXCEPT !.frac = @ - step]
        ELSE [a EXCEPT !.whole = @ - 1, !.frac = @ + Pow10(a.scale) - step]

\* A faulty truncation that rounds to the nearest (half up) instead.
roundToDecimalPlaces(a, places) ==
    LET cut  == Decimal(FixedText(a.whole, a.frac, a.scale, places), a.scale)
        step == Pow10(a.scale - places)
    IN  IF 2 * (a.frac % step) >= step
        THEN Normalize(cut.whole, cut.frac + step, a.scale)
        ELSE cut

\* Decimal.truncateToDecimalPlaces: floor(num * 10^places) / 10^places,
\* printed with toFixed(places) and parsed back at the same scale.
truncateToDecimalPlaces(a, places) ==
    LET cut == Decimal(FixedText(a.whole, a.frac, a.scale, places), a.scale)
    IN  IF <<a.whole, a.frac, places>> \in ProductFallsShort
        THEN OneUnitLess(cut, places)
        ELSE cut

\* A faulty calculateIncrease that leaves the ratio out.
calculateIncreaseUncapped(current, available, ratio) == parseFinancialAmount(available)

\* A faulty calculateIncrease that takes the ratio of the loan's amount.
calculateIncreaseOfLoan(current, available, ratio) ==
    LET availableDecimal == parseFinancialAmount(available)
        maxIncrease      == multiply(parseFinancialAmount(current), ratio)
    IN  IF isLessThan(availableDecimal, maxIncrease) THEN availableDecimal ELSE maxIncrease

\* calculateIncrease(_current, available, ratio): the smaller of available
\* and available * ratio.
calculateIncrease(current, available, ratio) ==
    LET availableDecimal == parseFinancialAmount(available)
        maxIncrease      == multiply(availableDecimal, ratio)
    IN  IF isLessThan(availableDecimal, maxIncrease) THEN availableDecimal ELSE maxIncrease

\* determineIncrements(increment, currencyInfo): the minimum increment is the
\* text unchanged; the decimal places are the API's withdrawalDecimalPlaces
\* when currencyInfo is given, else the length of what follows the first '.'
\* of the text (up to the next '.'), 0 when there is nothing.
NoInfo == [found |-> FALSE]

FirstDot(text) ==
    IF \E i \in 1..Len(text) : text[i] = "."
    THEN CHOOSE i \in 1..Len(text) : text[i] = "." /\ \A k \in 1..(i - 1) : text[k] # "."
    ELSE 0

SecondPartLength(text) ==
    LET i    == FirstDot(text)
        rest == SubSeq(text, i + 1, Len(text))
        j    == FirstDot(rest)
    IN  IF i = 0 THEN 0 ELSE IF j = 0 THEN Len(rest) ELSE j - 1

\* A faulty determineIncrements that always counts the digits of the text.
determineIncrementsFromText(increment, currencyInfo) ==
    [minIncrement |-> increment, decimalPlaces |-> SecondPartLength(increment)]

determineIncrements(increment, currencyInfo) ==
    IF currencyInfo.found
    THEN [minIncrement |-> increment, decimalPlaces |-> currencyInfo.withdrawalDecimalPlaces]
    ELSE [minIncrement |-> increment, decimalPlaces |-> SecondPartLength(increment)]

(***************************************************************************)
(* Constants of src/constants/currency-defaults.ts                         *)
(***************************************************************************)
DEFAULT_RETRY_ATTEMPTS == 3

MIN_RETRY_DELAY_MS == 1000

MAX_RETRY_DELAY_MS == 30000

MAIN_ACCOUNT_ID == "0"

DEFAULT_FALLBACK_INCREMENT == <<"0", ".", "0", "0", "1">>

DEFAULT_CURRENCY_INCREMENTS ==
    [ZAR |-> <<"1", ".", "0">>, BTC |-> <<"0", ".", "0", "0", "0", "0", "1">>]

(***************************************************************************)
(* ValrClient (src/utils/valr-client.ts): responses and their              *)
(* classification                                                          *)
(***************************************************************************)
\* JavaScript values of the rate-limit fields: null, NaN or a number.
JsNull == [k |-> "null", n |-> 0]

JsNaN == [k |-> "NaN", n |-> 0]

JsNum(v) == [k |-> "num", n |-> v]

\* JavaScript truthiness of such a value: null, NaN and 0 are falsy.
Truthy(v) == v.k = "num" /\ v.n # 0

\* A response header: absent, or present with a non-empty text.
NoHeader == [present |-> FALSE, text |-> <<>>]

Header(text) == [present |-> TRUE, text |-> text]

\* header ? parseInt(header) : null
HeaderInt(h) ==
    IF ~h.present \/ h.text = <<>> THEN JsNull
    ELSE LET p == ParseInt(h.text) IN IF p.nan THEN JsNaN ELSE JsNum(p.n)

NoRateLimitInfo == [present |-> FALSE, retryAfter |-> JsNull, rateLimitReset |-> JsNull]

NoError == [message |-> "", mentionsRateLimit |-> FALSE, rateLimitInfo |-> NoRateLimitInfo]

PlainError(message) ==
    [message |-> message, mentionsRateLimit |-> FALSE, rateLimitInfo |-> NoRateLimitInfo]

\* What the exchange (or the network) answers to one transmission.  status 0
\* is no response at all: a timeout or a network failure.  data is the body
\* of an error response: "none", "code" (a numeric code and a message) or
\* "codeRateLimit" (a numeric code and a message that contains the words
\* 'Rate limit exceeded').
Resp(status, retryAfter, rateLimitReset, data) ==
    [status |-> status, retryAfter |-> retryAfter, rateLimitReset |-> rateLimitReset,
     data |-> data]

NoResponse == Resp(-1, NoHeader, NoHeader, "none")

\* makeRequest's catch block: the error thrown for a failed transmission.
\* A 2xx response is no error.
makeRequestError(resp) ==
    IF resp.status = 0 THEN PlainError("Request failed: Network or service error")
    ELSE IF resp.status = 429
    THEN [message |-> "VALR API Error: Rate limit exceeded",
          mentionsRateLimit |-> TRUE,
          rateLimitInfo |-> [present |-> TRUE,
                             retryAfter |-> HeaderInt(resp.retryAfter),
                             rateLimitReset |-> HeaderInt(resp.rateLimitReset)]]
    ELSE IF resp.data # "none"
    THEN [message |-> "VALR API Error: {code, message}",
          mentionsRateLimit |-> resp.data = "codeRateLimit",
          rateLimitInfo |-> NoRateLimitInfo]
    ELSE IF resp.status = 401 \/ resp.status = 403
    THEN PlainError("VALR API Error: Unauthorized access")
    ELSE IF resp.status >= 400 /\ resp.status < 500
    THEN PlainError("VALR API Error: Invalid request")
    ELSE PlainError("VALR API Error: Service unavailable")

IsSuccess(resp) == resp.status >= 200 /\ resp.status < 300

\* Two faulty retry tests, against which the retry properties are tried: one
\* that retries whatever was thrown while attempts remain, and one that goes
\* by the error's message alone.
ShouldRetryAnyError(error, attempt, maxRetries) == attempt < maxRetries

ShouldRetryOnMessage(error, attempt, maxRetries) ==
    /\ error.mentionsRateLimit
    /\ attempt < maxRetries

\* A retry test that also retries service and network errors, and one that
\* forgets the attempts left.
ShouldRetryServiceErrors(error, attempt, maxRetries) ==
    /\ \/ error.mentionsRateLimit /\ error.rateLimitInfo.present
       \/ error.message \in {"VALR API Error: Service unavailable",
                              "Request failed: Network or service error"}
    /\ attempt < maxRetries

ShouldRetryWhateverIsLeft(error, attempt, maxRetries) ==
    /\ error.mentionsRateLimit
    /\ error.rateLimitInfo.present

\* makeRequestWithRetry's test for sleeping and trying again.
ShouldRetry(error, attempt, maxRetries) ==
    /\ error.mentionsRateLimit
    /\ error.rateLimitInfo.present
    /\ attempt < maxRetries

\* A faulty wait that looks at the reset time before Retry-After.
WaitTimeMsResetFirst(rateLimitInfo, attempt, now) ==
    IF Truthy(rateLimitInfo.rateLimitReset)
    THEN Max(rateLimitInfo.rateLimitReset.n * 1000 - now, MIN_RETRY_DELAY_MS)
    ELSE IF Truthy(rateLimitInfo.retryAfter)
    THEN rateLimitInfo.retryAfter.n * 1000
    ELSE Min(MIN_RETRY_DELAY_MS * Pow2(attempt), MAX_RETRY_DELAY_MS)

\* A faulty wait that takes the time until the reset as it is.
WaitTimeMsUnclamped(rateLimitInfo, attempt, now) ==
    IF Truthy(rateLimitInfo.retryAfter)
    THEN rateLimitInfo.retryAfter.n * 1000
    ELSE IF Truthy(rateLimitInfo.rateLimitReset)
    THEN rateLimitInfo.rateLimitReset.n * 1000 - now
    ELSE Min(MIN_RETRY_DELAY_MS * Pow2(attempt), MAX_RETRY_DELAY_MS)

\* makeRequestWithRetry's wait before the retry, in milliseconds.  `now` is
\* Date.now() when the error is handled.
WaitTimeMs(rateLimitInfo, attempt, now) ==
    IF Truthy(rateLimitInfo.retryAfter)
    THEN rateLimitInfo.retryAfter.n * 1000
    ELSE IF Truthy(rateLimitInfo.rateLimitReset)
    THEN Max(rateLimitInfo.rateLimitReset.n * 1000 - now, MIN_RETRY_DELAY_MS)
    ELSE Min(MIN_RETRY_DELAY_MS * Pow2(attempt), MAX_RETRY_DELAY_MS)

(***************************************************************************)
(* One logical request (a call of makeRequestWithRetry)                    *)
(*                                                                         *)
(* state: "idle" (not started), "inflight" (a transmission awaits its      *)
(* answer), "sleeping" (the backoff timer runs), "returned", "thrown",     *)
(* "consumed" (the caller has taken the outcome).  now is Date.now(),      *)
(* counted from the start of the logical request.  sleeps and others are   *)
(* history: the sleeps done, and the transmissions answered with anything  *)
(* but a 429.                                                              *)
(***************************************************************************)
NoRequest == [method |-> "", endpoint |-> "", subaccountId |-> "", body |-> <<>>]

\* makeRequest's X-VALR-SUB-ACCOUNT-ID header: the subaccount id, or "" for
\* no header (no subaccount given, or the main account).
SubaccountHeader(subaccountId) ==
    IF subaccountId # "" /\ subaccountId # MAIN_ACCOUNT_ID THEN subaccountId ELSE ""

\* A faulty interceptor that never passes the subaccount on to the signature.
SignatureSubaccountIdNever(header) == ""

\* The interceptor's signatureSubaccountId, "" for undefined.
SignatureSubaccountId(header) ==
    IF header # "" /\ header # MAIN_ACCOUNT_ID THEN header ELSE ""

\* createSignature: the HMAC-SHA512 of the payload under the API secret,
\* kept as the payload it is computed from.
createSignature(timestamp, method, path, body, subaccountId) ==
    <<timestamp, method, path, body>> \o (IF subaccountId # "" THEN <<subaccountId>> ELSE <<>>)

\* The request interceptor: the headers one transmission of a request
\* carries, given the Date.now() it reads.
SignedHeaders(request, timestamp) ==
    LET header == SubaccountHeader(request.subaccountId)
    IN  [timestamp        |-> timestamp,
         signature        |-> createSignature(timestamp, request.method, request.endpoint,
                                              request.body, SignatureSubaccountId(header)),
         subaccountHeader |-> header]

NoHeaders == [timestamp |-> 0, signature |-> <<>>, subaccountHeader |-> ""]

IdleCall ==
    [state |-> "idle", request |-> NoRequest, attempt |-> 0, now |-> 0, sentAt |-> 0,
     lastResponse |-> NoResponse, error |-> NoError, waitTimeMs |-> 0,
     sleeps |-> 0, others |-> 0, signed |-> NoHeaders, sent |-> <<>>]

\* A faulty client that signs once and sends the same headers again.
TimestampOfLastSend(call, now) == call.signed.timestamp

\* The interceptor's Date.now(), read as the transmission is sent.
TimestampAtSend(call, now) == now

ConsumedCall == [IdleCall EXCEPT !.state = "consumed"]

\* makeRequestWithRetry entered: attempt 0 is signed and sent at once.
StartCall(request) ==
    [IdleCall EXCEPT !.state = "inflight", !.request = request,
                     !.signed = SignedHeaders(request, TimestampAtSend(IdleCall, 0))]

\* The answer to the transmission in flight arrives `latency` ms after it was
\* sent; makeRequest returns or throws, and makeRequestWithRetry returns,
\* starts its sleep, or breaks out of the loop and throws the last error.
AfterResponse(call, resp, latency, maxRetries) ==
    LET now   == call.now + latency
        error == makeRequestError(resp)
        seen  == [call EXCEPT !.now = now, !.lastResponse = resp,
                              !.others = IF resp.status = 429 THEN @ ELSE @ + 1]
    IN  IF IsSuccess(resp) THEN [seen EXCEPT !.state = "returned"]
        ELSE IF ShouldRetry(error, call.attempt, maxRetries)
        THEN [seen EXCEPT !.state = "sleeping", !.error = error,
                          !.waitTimeMs = WaitTimeMs(error.rateLimitInfo, call.attempt, now)]
        ELSE [seen EXCEPT !.state = "thrown", !.error = error]

\* The condition of makeRequestWithRetry's for loop.
LoopContinues(attempt, maxRetries) == attempt <= maxRetries

\* The timer fires after waitTimeMs and the loop continues: its next attempt,
\* if the loop has one, is signed with a fresh Date.now() and sent; when the
\* loop is over, the last error is thrown.
AfterSleep(call, maxRetries) ==
    LET now == call.now + Max(call.waitTimeMs, 0)
    IN  IF LoopContinues(call.attempt + 1, maxRetries)
        THEN [call EXCEPT !.state = "inflight", !.attempt = @ + 1, !.now = now,
                          !.sentAt = now, !.sleeps = @ + 1,
                          !.signed = SignedHeaders(call.request, TimestampAtSend(call, now)),
                          !.sent = Append(@, call.signed)]
        ELSE [call EXCEPT !.state = "thrown", !.now = now, !.sleeps = @ + 1]

(***************************************************************************)
(* Planner (src/functions/manage-loans.ts, planSubaccountIncreases)        *)
(***************************************************************************)
\* The reduce over the balances: currency -> available, a later entry of
\* the same currency replacing an earlier one.
AvailableBalances(balances) ==
    [c \in {balances[k].currency : k \in 1..Len(balances)} |->
        LET last == CHOOSE k \in 1..Len(balances) :
                        /\ balances[k].currency = c
                        /\ \A m \in (k + 1)..Len(balances) : balances[m].currency # c
        IN  balances[last].available]

\* record[key] || fallback, for a record of texts (the empty text is falsy).
TextOr(record, key, fallback) ==
    IF key \in DOMAIN record /\ record[key] # <<>> THEN record[key] ELSE fallback

\* record[key] || fallback, for a record of numbers (0 is falsy).
NumberOr(record, key, fallback) ==
    IF key \in DOMAIN record /\ record[key] # 0 THEN record[key] ELSE fallback

\* A faulty new quantity, computed from the increase before its truncation.
NewQuantityUntruncated(currentQuantity, actualIncrease, truncatedIncrease) ==
    DecimalAdd(currentQuantity, actualIncrease)

\* const newQuantity = currentQuantity.add(truncatedIncrease)
NewQuantity(currentQuantity, actualIncrease, truncatedIncrease) ==
    DecimalAdd(currentQuantity, truncatedIncrease)

\* Whether the planning of a loan throws: parseFinancialAmount does, on an
\* available balance, a minimum increment or a loan amount that is no number.
LoanThrows(loan, availableBalances, config) ==
    \/ ~IsDecimal(parseFinancialAmount(TextOr(availableBalances, loan.currency, <<"0">>)))
    \/ ~IsDecimal(parseFinancialAmount(TextOr(config.minIncrementAmount, loan.currency, <<"0">>)))
    \/ ~IsDecimal(parseFinancialAmount(loan.totalAmount))

\* The body of the loop over the open loans, for one loan: the planned
\* increases it pushes (one or none).  A Decimal that cannot be parsed throws;
\* the loan's own catch logs it and the loop goes on.
PlanLoan(subaccount, loan, availableBalances, config) ==
    LET currency           == loan.currency
        availableAmountStr == TextOr(availableBalances, currency, <<"0">>)
        minIncrementStr    == TextOr(config.minIncrementAmount, currency, <<"0">>)
        availableAmount    == parseFinancialAmount(availableAmountStr)
        minIncrement       == parseFinancialAmount(minIncrementStr)
        currentQuantity    == parseFinancialAmount(loan.totalAmount)
    IN  IF LoanThrows(loan, availableBalances, config)
        THEN <<>>
        ELSE IF isLessThan(availableAmount, minIncrement) THEN <<>>
        ELSE LET actualIncrease == calculateIncrease(loan.totalAmount, availableAmountStr,
                                                     config.maxLoanRatio)
             IN  IF isLessThan(actualIncrease, minIncrement) THEN <<>>
                 ELSE LET decimalPlaces     == NumberOr(config.currencyDecimalPlaces, currency, 8)
                          truncatedIncrease == truncateToDecimalPlaces(actualIncrease, decimalPlaces)
                          newQuantity       == NewQuantity(currentQuantity, actualIncrease,
                                                           truncatedIncrease)
                      IN  << [subaccountId    |-> subaccount.id,
                              subaccountLabel |-> subaccount.label,
                              loanId          |-> loan.loanId,
                              currency        |-> currency,
                              currentAmount   |-> toString(currentQuantity),
                              increaseAmount  |-> toString(truncatedIncrease),
                              newAmount       |-> toString(newQuantity)] >>

\* A faulty loop without the catch block of its body: what a loan throws
\* leaves the loop, and the increases planned before it are returned.
RECURSIVE PlanLoansUntilThrow(_, _, _, _)
PlanLoansUntilThrow(subaccount, openLoans, availableBalances, config) ==
    IF openLoans = <<>> THEN <<>>
    ELSE IF LoanThrows(Head(openLoans), availableBalances, config) THEN <<>>
    ELSE PlanLoan(subaccount, Head(openLoans), availableBalances, config)
            \o PlanLoansUntilThrow(subaccount, Tail(openLoans), availableBalances, config)

\* for (const loan of openLoans) { try { ... } catch { log } }
RECURSIVE PlanLoans(_, _, _, _)
PlanLoans(subaccount, openLoans, availableBalances, config) ==
    IF openLoans = <<>> THEN <<>>
    ELSE PlanLoan(subaccount, Head(openLoans), availableBalances, config)
            \o PlanLoans(subaccount, Tail(openLoans), availableBalances, config)

\* A faulty planner that does not notice that getSubaccountBalances failed
\* and plans with balances all the same.
planSubaccountIncreasesUnaware(subaccount, balancesOk, balances, config, cachedLoans) ==
    PlanLoans(subaccount, cachedLoans, AvailableBalances(balances), config)

\* planSubaccountIncreases: balancesOk is whether getSubaccountBalances
\* returned; when it threw, the outer catch returns the empty list.  The
\* cached loans are always an array, so getOpenLoans is not called again.
planSubaccountIncreases(subaccount, balancesOk, balances, config, cachedLoans) ==
    IF ~balancesOk THEN <<>>
    ELSE PlanLoans(subaccount, cachedLoans, AvailableBalances(balances), config)

(***************************************************************************)
(* Configuration (src/config.ts, getLoanManagementConfig)                  *)
(***************************************************************************)
\* (10 ** -places).toFixed(places)
ApiIncrement(places) ==
    IF places = 0 THEN <<"1">>
    ELSE <<"0", ".">> \o [k \in 1..(places - 1) |-> "0"] \o <<"1">>

\* currencies.find(c => c.shortName === currency)
FindCurrency(currencies, currency) ==
    IF \E k \in 1..Len(currencies) : currencies[k].shortName = currency
    THEN LET first == CHOOSE k \in 1..Len(currencies) :
                          /\ currencies[k].shortName = currency
                          /\ \A m \in 1..(k - 1) : currencies[m].shortName # currency
         IN  [found |-> TRUE,
              withdrawalDecimalPlaces |-> currencies[first].withdrawalDecimalPlaces]
    ELSE NoInfo

\* The increments of one currency; currenciesOk is whether getCurrencies
\* returned (when it threw, the catch block uses the fallbacks only).
CurrencyIncrements(currency, currenciesOk, currencies, customMinIncrements) ==
    LET currencyInfo == FindCurrency(currencies, currency)
        default      == TextOr(DEFAULT_CURRENCY_INCREMENTS, currency, DEFAULT_FALLBACK_INCREMENT)
        custom       == TextOr(customMinIncrements, currency, <<>>)
    IN  IF ~currenciesOk
        THEN determineIncrements(IF custom # <<>> THEN custom ELSE default, NoInfo)
        ELSE IF custom # <<>> THEN determineIncrements(custom, currencyInfo)
        ELSE IF currencyInfo.found
        THEN determineIncrements(ApiIncrement(currencyInfo.withdrawalDecimalPlaces), currencyInfo)
        ELSE determineIncrements(default, NoInfo)

getLoanManagementConfig(appConfig, currenciesOk, currencies, activeCurrencies) ==
    LET active == Range(activeCurrencies)
        incr(c) == CurrencyIncrements(c, currenciesOk, currencies, appConfig.customMinIncrements)
    IN  [minIncrementAmount    |-> [c \in active |-> incr(c).minIncrement],
         currencyDecimalPlaces |-> [c \in active |-> incr(c).decimalPlaces],
         maxLoanRatio          |-> appConfig.maxLoanRatio,
         dryRun                |-> appConfig.dryRun]

NoConfig ==
    [minIncrementAmount |-> NoEntries, currencyDecimalPlaces |-> NoEntries,
     maxLoanRatio |-> [num |-> 1, den |-> 1], dryRun |-> FALSE]

(***************************************************************************)
(* Execution plan (createExecutionPlan)                                    *)
(***************************************************************************)
RECURSIVE Flatten(_)
Flatten(lists) == IF lists = <<>> THEN <<>> ELSE Head(lists) \o Flatten(Tail(lists))

\* A faulty loop that stores each increase amount in place of the running
\* total of its currency.
TotalsByCurrencyOverwritten(increases) ==
    [c \in {increases[k].currency : k \in 1..Len(increases)} |->
        LET last == CHOOSE k \in 1..Len(increases) :
                        /\ increases[k].currency = c
                        /\ \A m \in (k + 1)..Len(increases) : increases[m].currency # c
        IN  toString(parseFinancialAmount(increases[last].increaseAmount))]

\* The loop that sums the increase amounts per currency, in Decimal
\* arithmetic, keeping each running total as a text.
RECURSIVE TotalsByCurrency(_)
TotalsByCurrency(increases) ==
    IF increases = <<>> THEN NoEntries
    ELSE LET before     == TotalsByCurrency(SubSeq(increases, 1, Len(increases) - 1))
             increase   == increases[Len(increases)]
             current    == parseFinancialAmount(TextOr(before, increase.currency, <<"0">>))
             additional == parseFinancialAmount(increase.increaseAmount)
             total      == toString(DecimalAdd(current, additional))
         IN  [c \in DOMAIN before \cup {increase.currency} |->
                 IF c = increase.currency THEN total ELSE before[c]]

RiskAssessment(n) ==
    IF n = 0 THEN "No increases planned"
    ELSE IF n < 5 THEN "Low risk - few increases"
    ELSE IF n < 15 THEN "Medium risk - moderate increases"
    ELSE "High risk - many increases"

ExecutionPlan(allPlannedIncreases) ==
    [plannedIncreases         |-> allPlannedIncreases,
     totalIncreasesByCurrency |-> TotalsByCurrency(allPlannedIncreases),
     estimatedExecutionTimeMs |-> Len(allPlannedIncreases) * 200 + 500,
     riskAssessment           |-> RiskAssessment(Len(allPlannedIncreases))]

NoPlan == ExecutionPlan(<<>>)

(***************************************************************************)
(* Execution results and the summary (executeIncrease, handler)            *)
(***************************************************************************)
SuccessResult(plannedIncrease) ==
    [plannedIncrease |-> plannedIncrease, success |-> TRUE, error |-> ""]

\* `Failed to execute increase for loan ${loanId}: ${error.message}`
FailureResult(plannedIncrease, error) ==
    [plannedIncrease |-> plannedIncrease, success |-> FALSE, error |-> error.message]

\* The UpdateLoanRequest executeIncrease builds for a planned increase:
\* currencySymbol, increaseLoanAmountBy, loanId.
UpdateLoanRequest(plannedIncrease) ==
    <<plannedIncrease.currency, plannedIncrease.increaseAmount, plannedIncrease.loanId>>

\* client.increaseLoan(subaccountId, updateRequest): the logical request it
\* hands to makeRequestWithRetry.  The method is not among the sources; the
\* loan-increase endpoint is called through the signed transport, as
\* updateLoan calls it.
increaseLoan(subaccountId, updateRequest) ==
    [method       |-> "PUT",
     endpoint     |-> "/v1/loans/increase",
     subaccountId |-> subaccountId,
     body         |-> updateRequest]

RECURSIVE Select(_, _)
Select(seq, keep) ==
    IF seq = <<>> THEN <<>>
    ELSE (IF keep[1] THEN <<Head(seq)>> ELSE <<>>)
            \o Select(Tail(seq), Tail(keep))

\* A faulty filter that does not look at the subaccount.
ResultsWhereAnySubaccount(results, subaccountId, success) ==
    Select(results, [k \in 1..Len(results) |-> results[k].success \in success])

\* filter of a list of execution results
ResultsWhere(results, subaccountId, success) ==
    Select(results, [k \in 1..Len(results) |->
                        /\ results[k].plannedIncrease.subaccountId = subaccountId
                        /\ results[k].success \in success])

RECURSIVE SumField(_, _)
SumField(seq, field) ==
    IF seq = <<>> THEN 0 ELSE Head(seq)[field] + SumField(Tail(seq), field)

\* The ProcessingResult of one subaccount.
ProcessingResult(subaccount, executionResults) ==
    LET subaccountResults == ResultsWhere(executionResults, subaccount.id, BOOLEAN)
        successfulResults == ResultsWhere(executionResults, subaccount.id, {TRUE})
        failedResults     == ResultsWhere(executionResults, subaccount.id, {FALSE})
    IN  [subaccountId         |-> subaccount.id,
         subaccountLabel      |-> subaccount.label,
         processedLoans       |-> Len(subaccountResults),
         increasedLoans       |-> Len(successfulResults),
         totalAmountIncreased |->
             TotalsByCurrency([k \in 1..Len(successfulResults) |->
                                   successfulResults[k].plannedIncrease]),
         errors               |->
             [k \in 1..Len(failedResults) |->
                 IF failedResults[k].error = "" THEN "Unknown error"
                 ELSE failedResults[k].error]]

\* A faulty summary that leaves the errors of the failed results out.
ExecutionSummaryWithoutErrors(subaccountList, executionPlan, executionResults) ==
    LET results == [k \in 1..Len(subaccountList) |->
                       ProcessingResult(subaccountList[k], executionResults)]
    IN  [totalSubaccounts     |-> Len(subaccountList),
         processedSubaccounts |-> Len(results),
         totalLoansProcessed  |-> SumField(results, "processedLoans"),
         totalLoansIncreased  |-> SumField(results, "increasedLoans"),
         results              |-> results,
         errors               |-> <<>>,
         executionPlan        |-> executionPlan,
         executionResults     |-> executionResults]

\* A faulty summary that reports, as the plan, a plan of the increases that
\* succeeded.
ExecutionSummaryOfSucceeded(subaccountList, executionPlan, executionResults) ==
    LET results   == [k \in 1..Len(subaccountList) |->
                         ProcessingResult(subaccountList[k], executionResults)]
        succeeded == Select(executionResults,
                            [k \in 1..Len(executionResults) |-> executionResults[k].success])
    IN  [totalSubaccounts     |-> Len(subaccountList),
         processedSubaccounts |-> Len(results),
         totalLoansProcessed  |-> SumField(results, "processedLoans"),
         totalLoansIncreased  |-> SumField(results, "increasedLoans"),
         results              |-> results,
         errors               |-> Flatten([k \in 1..Len(results) |-> results[k].errors]),
         executionPlan        |-> ExecutionPlan([k \in 1..Len(succeeded) |->
                                                    succeeded[k].plannedIncrease]),
         executionResults     |-> executionResults]

\* The ExecutionSummary the handler builds from the execution results.
ExecutionSummary(subaccountList, executionPlan, executionResults) ==
    LET results == [k \in 1..Len(subaccountList) |->
                       ProcessingResult(subaccountList[k], executionResults)]
    IN  [totalSubaccounts     |-> Len(subaccountList),
         processedSubaccounts |-> Len(results),
         totalLoansProcessed  |-> SumField(results, "processedLoans"),
         totalLoansIncreased  |-> SumField(results, "increasedLoans"),
         results              |-> results,
         errors               |-> Flatten([k \in 1..Len(results) |-> results[k].errors]),
         executionPlan        |-> executionPlan,
         executionResults     |-> executionResults]

(***************************************************************************)
(* The model's inputs: the environment the function is deployed with and   *)
(* the data the exchange holds                                             *)
(***************************************************************************)
T0_5 == <<"0", ".", "5">>

T1 == <<"1">>

T20 == <<"2", "0">>

T100 == <<"1", "0", "0">>

T500 == <<"5", "0", "0">>

TBtcBalance == <<"0", ".", "0", "0", "0", "1", "2", "3", "4", "5", "6">>

TBtcLoan == <<"0", ".", "2", "5">>

TNotANumber == <<"x">>

Ratio(num, den) == [num |-> num, den |-> den]

\* The subaccounts getSubaccounts returns.
SubaccountList ==
    << [id |-> "S1", label |-> "Lending one"], [id |-> "S2", label |-> "Lending two"] >>

SubaccountIds == {SubaccountList[k].id : k \in 1..Len(SubaccountList)}

Balance(currency, available) == [currency |-> currency, available |-> available]

Loan(subaccountId, n, currency, totalAmount) ==
    [loanId |-> <<subaccountId, n>>, currency |-> currency, totalAmount |-> totalAmount]

\* What a subaccount may hold: its balances and its open loans.
Holdings(s) ==
    { [balances |-> <<Balance("ZAR", T100)>>, loans |-> <<>>],
      [balances |-> <<Balance("ZAR", T100)>>, loans |-> <<Loan(s, 1, "ZAR", T500)>>],
      [balances |-> <<Balance("ZAR", T100)>>,
       loans    |-> <<Loan(s, 1, "ZAR", T500), Loan(s, 2, "ZAR", T20)>>],
      [balances |-> <<Balance("ZAR", T0_5), Balance("BTC", TBtcBalance)>>,
       loans    |-> <<Loan(s, 1, "ZAR", T500), Loan(s, 2, "BTC", TBtcLoan)>>],
      [balances |-> <<Balance("BTC", TBtcBalance)>>,
       loans    |-> <<Loan(s, 1, "BTC", TNotANumber), Loan(s, 2, "BTC", TBtcLoan)>>] }

\* The currency metadata getCurrencies returns.
CurrencyInfos ==
    << [shortName |-> "ZAR", withdrawalDecimalPlaces |-> 2],
       [shortName |-> "BTC", withdrawalDecimalPlaces |-> 8] >>

\* The read-only calls of a run, each made once: a call in exchange.down
\* fails (after its retries), the others return the exchange's data.
ReadCalls ==
    {<<"subaccounts", "">>, <<"currencies", "">>}
        \cup {<<"loans", s>> : s \in SubaccountIds}
        \cup {<<"balances", s>> : s \in SubaccountIds}

\* At most this many of the read-only calls of a run fail.
MaxDown == 1

MaxLoanRatios == {Ratio(4, 5), Ratio(1, 1)}

CustomMinIncrements == {NoEntries, [c \in {"ZAR"} |-> T1]}

\* The environment variables, as validateAllEnvironmentVariables and
\* getConfig read them.
Environments ==
    [valid : BOOLEAN, maxLoanRatio : MaxLoanRatios, dryRun : BOOLEAN,
     customMinIncrements : CustomMinIncrements]

\* Two outages: the loans, or the balances, of every subaccount fail.
Outages ==
    { {<<"loans", s>> : s \in SubaccountIds}, {<<"balances", s>> : s \in SubaccountIds} }

\* The exchange: what its subaccounts hold, and the read calls that fail (up
\* to MaxDown of them, or an outage).
Exchanges ==
    { [accounts |-> accounts, currencies |-> CurrencyInfos, down |-> down] :
        accounts \in {f \in [SubaccountIds -> UNION {Holdings(s) : s \in SubaccountIds}] :
                          \A s \in SubaccountIds : f[s] \in Holdings(s)},
        down \in {d \in SUBSET ReadCalls : Cardinality(d) <= MaxDown} \cup Outages }

\* The answers the exchange gives to a loan increase during a run (status 0:
\* none, the request timed out or the network failed).
HandlerResponses ==
    { Resp(200, NoHeader, NoHeader, "none"),
      Resp(429, NoHeader, NoHeader, "none"),
      Resp(401, NoHeader, NoHeader, "none"),
      Resp(500, NoHeader, NoHeader, "none"),
      Resp(0, NoHeader, NoHeader, "none") }

\* The requests, answers and latencies of a client used on its own.
ClientRequests ==
    { [method |-> "GET", endpoint |-> "/v1/account/subaccounts", subaccountId |-> "",
       body |-> <<>>],
      [method |-> "GET", endpoint |-> "/v1/account/balances", subaccountId |-> "0",
       body |-> <<>>],
      [method |-> "GET", endpoint |-> "/v1/loans/open", subaccountId |-> "S1",
       body |-> <<>>],
      [method |-> "PUT", endpoint |-> "/v1/loans/increase", subaccountId |-> "S1",
       body |-> <<"ZAR", T100, <<"S1", 1>>>>] }

RetryAfterHeaders ==
    {NoHeader, Header(<<"0">>), Header(<<"2">>), Header(<<"6", "0">>),
     Header(<<"W", "e", "d">>)}

\* Reset times, in seconds after the start of the logical request.
RateLimitResetHeaders == {NoHeader, Header(<<"1">>), Header(<<"3">>)}

ErrorBodies == {"none", "code", "codeRateLimit"}

ClientResponses ==
    {Resp(200, NoHeader, NoHeader, "none"), Resp(0, NoHeader, NoHeader, "none")}
        \cup {Resp(429, ra, rs, "none") : ra \in RetryAfterHeaders, rs \in RateLimitResetHeaders}
        \cup {Resp(status, NoHeader, NoHeader, data) :
                  status \in {400, 401, 403, 500}, data \in ErrorBodies}

ClientLatencies == {0, 250}

\* Amounts the planner and Decimal are tried on by themselves.
T0 == <<"0">>

T0_019 == <<"0", ".", "0", "1", "9">>

T0_29 == <<"0", ".", "2", "9">>

T1_15 == <<"1", ".", "1", "5">>

T1_23999 == <<"1", ".", "2", "3", "9", "9", "9">>

T80 == <<"8", "0">>

T0_01 == <<"0", ".", "0", "1">>

TThreeUnits == <<"0", ".", "0", "0", "0", "0", "0", "0", "0", "3">>

TOneUnit == <<"0", ".", "0", "0", "0", "0", "0", "0", "0", "1">>

AvailableTexts == {T0, T0_5, T1, T1_15, T0_29, T0_019, T100, TThreeUnits, TBtcBalance}

\* The balances of the subaccount: none, another currency only, or ZAR.
PlannerBalances ==
    {<<>>, <<Balance("BTC", T1)>>} \cup {<<Balance("ZAR", a)>> : a \in AvailableTexts}

PlannerMinIncrements == {T1, T0_01, TOneUnit}

PlannerDecimalPlaces == {0, 2, 8}

PlannerRatios == {Ratio(0, 1), Ratio(1, 1000), Ratio(1, 2), Ratio(4, 5), Ratio(1, 1)}

\* A loan amount with something after the number.
T500x == <<"5", "0", "0", "x">>

PlannerLoanAmounts == {T500, TBtcLoan, TNotANumber, T500x}

\* The planner's arguments: one subaccount with one open ZAR loan.
PlannerCases ==
    { [op         |-> "plan",
       subaccount |-> SubaccountList[1],
       balances   |-> balances,
       config     |-> [minIncrementAmount    |-> [c \in {"ZAR"} |-> minIncrement],
                       currencyDecimalPlaces |-> [c \in {"ZAR"} |-> places],
                       maxLoanRatio          |-> ratio,
                       dryRun                |-> TRUE],
       loans      |-> <<Loan("S1", 1, "ZAR", totalAmount)>>,
       done       |-> FALSE,
       out        |-> <<>>] :
        balances \in PlannerBalances, minIncrement \in PlannerMinIncrements,
        places \in PlannerDecimalPlaces, ratio \in PlannerRatios,
        totalAmount \in PlannerLoanAmounts }

DecimalTexts ==
    AvailableTexts \cup {T1_23999, T20, T500, TBtcLoan, T80}

\* The arguments of a truncation.
DecimalCases ==
    { [op |-> "truncate", a |-> a, places |-> places, done |-> FALSE, out |-> NaN] :
        a \in DecimalTexts, places \in 0..DEFAULT_SCALE }

\* Amounts Decimal.add and the comparisons are tried on.
T0_1 == <<"0", ".", "1">>

T0_2 == <<"0", ".", "2">>

AmountTexts == {T0_1, T0_2, T0_5, T1_15, TOneUnit, T100, TLarge}

\* What is added again and again; the sums stay below 2^53 units.
AddendTexts == AmountTexts \ {TLarge}

AmountScales == {2, DEFAULT_SCALE}

\* How often an amount is added to the running sum.
MaxAdds == 3

\* Decimal.fromString(s1, scale1), to which Decimal.fromString(s2, scale2)
\* is added n times.
AddCases ==
    { [op |-> "add", s1 |-> s1, s2 |-> s2, scale1 |-> scale1, scale2 |-> scale2,
       n |-> 0, acc |-> Decimal(s1, scale1)] :
        s1 \in AmountTexts, s2 \in AddendTexts,
        scale1 \in AmountScales, scale2 \in AmountScales }

\* The two amounts of a comparison.
CompareCases ==
    { [op |-> "compare", s1 |-> s1, s2 |-> s2, scale1 |-> scale1, scale2 |-> scale2,
       done |-> FALSE, out |-> NaN] :
        s1 \in AmountTexts, s2 \in AmountTexts,
        scale1 \in AmountScales, scale2 \in AmountScales }

T5Dot == <<"5", ".">>

TDot5 == <<".", "5">>

T1_123 == <<"1", ".", "1", "2", "3">>

TTwoDots == <<"1", ".", "2", ".", "3">>

IncrementTexts == {<<>>, T1, T0_01, TOneUnit, T5Dot, TDot5, T1_123, TTwoDots}

\* currencyInfo: undefined, or what the API says of the currency.
IncrementInfos ==
    {NoInfo} \cup {[found |-> TRUE, withdrawalDecimalPlaces |-> places] : places \in {0, 2, 8}}

\* The arguments of determineIncrements.
IncrementCases ==
    { [op |-> "increments", increment |-> increment, currencyInfo |-> currencyInfo,
       done |-> FALSE, out |-> NaN] :
        increment \in IncrementTexts, currencyInfo \in IncrementInfos }

(***************************************************************************)
(* State                                                                   *)
(***************************************************************************)
VARIABLES
    env,               \* the environment variables of the deployment
    exchange,          \* the exchange's data and which read calls fail
    pc,                \* where the handler is
    subaccounts,       \* handler: the list getSubaccounts returned
    loanTask,          \* handler: loanPromises, each "pending" or "settled"
    loanCache,         \* handler: loanCache, subaccount id -> open loans
    activeCurrencyList,\* handler: activeCurrencyList
    config,            \* handler: config
    planTask,          \* createExecutionPlan: planningPromises
    planningResults,   \* createExecutionPlan: what each settled promise holds
    executionPlan,     \* handler: executionPlan
    i,                 \* executeSequentially: iterations started
    awaiting,          \* executeSequentially: executeIncrease calls not settled
    executionResults,  \* executeSequentially: executionResults
    tx,                \* ValrClient: the logical requests, by plan index
    response,          \* what the handler returned
    previousRun,       \* what an earlier invocation planned and did
    calc               \* a function of the planner or of Decimal tried on its own

vars ==
    <<env, exchange, pc, subaccounts, loanTask, loanCache, activeCurrencyList, config,
      planTask, planningResults, executionPlan, i, awaiting, executionResults, tx, response,
      previousRun, calc>>

NoResponseYet == [statusCode |-> 0, success |-> FALSE, error |-> "", summary |-> <<>>]

NoRun == [ran |-> FALSE, plannedIncreases |-> <<>>, success |-> <<>>, calls |-> 0]

NoCalc == [op |-> "none"]

\* The handler's own state when an invocation starts.
HandlerStart ==
    /\ pc = "start"
    /\ subaccounts = <<>>
    /\ loanTask = NoEntries
    /\ loanCache = NoEntries
    /\ activeCurrencyList = <<>>
    /\ config = NoConfig
    /\ planTask = NoEntries
    /\ planningResults = NoEntries
    /\ executionPlan = NoPlan
    /\ i = 0
    /\ awaiting = {}
    /\ executionResults = <<>>
    /\ tx = <<>>
    /\ response = NoResponseYet

Init ==
    /\ env \in Environments
    /\ exchange \in Exchanges
    /\ HandlerStart
    /\ previousRun = NoRun
    /\ calc = NoCalc

Up(call) == call \notin exchange.down

Ids(list) == {list[k].id : k \in 1..Len(list)}

AllSettled(tasks) == \A s \in DOMAIN tasks : tasks[s] = "settled"

\* A faulty set in which the write of a task replaces what the tasks before
\* it have written.
MapSetLosingOthers(map, key, value) == [c \in {key} |-> value]

\* map.set(key, value)
MapSet(map, key, value) ==
    [c \in DOMAIN map \cup {key} |-> IF c = key THEN value ELSE map[c]]

\* map.get(key) || []
MapGetOrEmpty(map, key) == IF key \in DOMAIN map THEN map[key] ELSE <<>>

\* The distinct elements of a list, in the order of their first occurrence
\* (the insertion order of a Set).
RECURSIVE Distinct(_)
Distinct(list) ==
    IF list = <<>> THEN <<>>
    ELSE LET before == Distinct(SubSeq(list, 1, Len(list) - 1))
             last   == list[Len(list)]
         IN  IF last \in Range(before) THEN before ELSE Append(before, last)

(***************************************************************************)
(* The handler (src/functions/manage-loans.ts)                             *)
(***************************************************************************)
\* A faulty answer that reports a run without processed loans as an error.
Respond200UnlessEmpty(summary) ==
    IF summary.totalLoansProcessed = 0
    THEN [statusCode |-> 500, success |-> FALSE,
          error |-> "Internal server error occurred during execution", summary |-> <<>>]
    ELSE [statusCode |-> 200, success |-> TRUE, error |-> "", summary |-> summary]

Respond200(summary) ==
    [statusCode |-> 200, success |-> TRUE, error |-> "", summary |-> summary]

Respond400 ==
    [statusCode |-> 400, success |-> FALSE, error |-> "Configuration validation failed",
     summary |-> <<>>]

\* A faulty catch block that answers with the message of the error caught.
Respond500WithMessage(error) ==
    [statusCode |-> 500, success |-> FALSE, error |-> error.message, summary |-> <<>>]

\* The handler's catch block: the answer to the error it caught.
Respond500(error) ==
    [statusCode |-> 500, success |-> FALSE,
     error |-> "Internal server error occurred during execution", summary |-> <<>>]

\* A faulty handler that logs the validation errors and goes on.
ExitsEarlyNever(isValid) == FALSE

\* `if (!validation.isValid)`: whether the handler returns before it builds
\* its client.
ExitsEarly(isValid) == ~isValid

\* validateAllEnvironmentVariables; on success the client is built and
\* getSubaccounts is awaited.
Validate ==
    /\ pc = "start"
    /\ IF ~ExitsEarly(env.valid)
       THEN /\ pc' = "subaccounts"
            /\ UNCHANGED response
       ELSE /\ pc' = "done"
            /\ response' = Respond400
    /\ UNCHANGED <<calc, previousRun, env, exchange, subaccounts, loanTask, loanCache, activeCurrencyList,
                   config, planTask, planningResults, executionPlan, i, awaiting,
                   executionResults, tx>>

\* getSubaccounts settles.  When it returned, one loan-discovery task per
\* subaccount is started (each awaits getOpenLoans); when it threw (the
\* error of its last transmission), the handler's catch answers 500.
GetSubaccountsSettle ==
    /\ pc = "subaccounts"
    /\ IF Up(<<"subaccounts", "">>)
       THEN /\ subaccounts' = SubaccountList
            /\ loanTask' = [s \in Ids(SubaccountList) |-> "pending"]
            /\ pc' = "discovery"
            /\ UNCHANGED response
       ELSE /\ pc' = "done"
            /\ \E resp \in HandlerResponses :
                   /\ ~IsSuccess(resp)
                   /\ response' = Respond500(makeRequestError(resp))
            /\ UNCHANGED <<subaccounts, loanTask>>
    /\ UNCHANGED <<calc, previousRun, env, exchange, loanCache, activeCurrencyList, config, planTask,
                   planningResults, executionPlan, i, awaiting, executionResults, tx>>

\* One loan-discovery task settles: it stores the loans it got, or the empty
\* list when getOpenLoans threw, in the shared loan cache.
LoanTaskSettle(s) ==
    /\ s \in DOMAIN loanTask
    /\ loanTask[s] = "pending"
    /\ loanCache' = MapSet(loanCache, s,
                           IF Up(<<"loans", s>>) THEN exchange.accounts[s].loans ELSE <<>>)
    /\ loanTask' = [loanTask EXCEPT ![s] = "settled"]
    /\ UNCHANGED <<calc, previousRun, env, exchange, pc, subaccounts, activeCurrencyList, config, planTask,
                   planningResults, executionPlan, i, awaiting, executionResults, tx,
                   response>>

\* Promise.allSettled(loanPromises) resolves: the active currencies are
\* collected in subaccount order and getLoanManagementConfig is called, which
\* awaits getCurrencies.
DiscoveryJoin ==
    /\ pc = "discovery"
    /\ AllSettled(loanTask)
    /\ activeCurrencyList' =
           Distinct(Flatten([k \in 1..Len(subaccounts) |->
               LET openLoans == MapGetOrEmpty(loanCache, subaccounts[k].id)
               IN  [m \in 1..Len(openLoans) |-> openLoans[m].currency]]))
    /\ pc' = "config"
    /\ UNCHANGED <<calc, previousRun, env, exchange, subaccounts, loanTask, loanCache, config, planTask,
                   planningResults, executionPlan, i, awaiting, executionResults, tx,
                   response>>

\* getLoanManagementConfig settles, and createExecutionPlan starts one
\* planning task per subaccount (each awaits getSubaccountBalances).
ConfigSettle ==
    /\ pc = "config"
    /\ config' = getLoanManagementConfig(env, Up(<<"currencies", "">>), exchange.currencies,
                                         activeCurrencyList)
    /\ planTask' = [s \in Ids(subaccounts) |-> "pending"]
    /\ pc' = "planning"
    /\ UNCHANGED <<calc, previousRun, env, exchange, subaccounts, loanTask, loanCache, activeCurrencyList,
                   planningResults, executionPlan, i, awaiting, executionResults, tx,
                   response>>

SubaccountOf(id) == CHOOSE a \in Range(subaccounts) : a.id = id

\* One planning task settles with the increases planned for its subaccount.
PlanTaskSettle(s) ==
    /\ s \in DOMAIN planTask
    /\ planTask[s] = "pending"
    /\ planningResults' =
           MapSet(planningResults, s,
                  planSubaccountIncreases(SubaccountOf(s), Up(<<"balances", s>>),
                                          exchange.accounts[s].balances, config,
                                          MapGetOrEmpty(loanCache, s)))
    /\ planTask' = [planTask EXCEPT ![s] = "settled"]
    /\ UNCHANGED <<calc, previousRun, env, exchange, pc, subaccounts, loanTask, loanCache, activeCurrencyList,
                   config, executionPlan, i, awaiting, executionResults, tx, response>>

\* A faulty barrier that lets the plan be built as soon as one planning task
\* has settled.
PlanningSettledAny(tasks) == \E s \in DOMAIN tasks : tasks[s] = "settled"

\* await Promise.allSettled(planningPromises): when createExecutionPlan goes
\* on to build the plan.
PlanningSettled(tasks) == AllSettled(tasks)

\* createExecutionPlan builds the plan from the settled tasks, in subaccount
\* order, and the handler enters executeSequentially.
BuildPlan ==
    /\ pc = "planning"
    /\ PlanningSettled(planTask)
    /\ executionPlan' =
           ExecutionPlan(Flatten([k \in 1..Len(subaccounts) |->
                                     MapGetOrEmpty(planningResults, subaccounts[k].id)]))
    /\ tx' = [k \in 1..Len(executionPlan'.plannedIncreases) |-> IdleCall]
    /\ pc' = "executing"
    /\ UNCHANGED <<calc, previousRun, env, exchange, subaccounts, loanTask, loanCache, activeCurrencyList,
                   config, planTask, planningResults, i, awaiting, executionResults,
                   response>>

(***************************************************************************)
(* executeSequentially and executeIncrease                                 *)
(***************************************************************************)
\* A faulty loop that does not await executeIncrease.
IterationMayStartWithoutAwait(started, results) == TRUE

\* A faulty loop whose await is never resumed.
IterationMayStartNever(started, results) == FALSE

\* Two faulty dry-run tests: one that always calls the client, and one that
\* reads the flag the wrong way round.
CallsTransportAlways(cfg) == TRUE

CallsTransportInverted(cfg) == cfg.dryRun

\* A faulty push that puts the newest result first.
PushResultFront(results, result) == <<result>> \o results

\* A faulty executeIncrease without its catch block: the client's error is
\* thrown on to executeSequentially.
executeIncreaseRethrow(plannedIncrease, call) ==
    IF call.state = "returned"
    THEN [thrown |-> FALSE, result |-> SuccessResult(plannedIncrease)]
    ELSE [thrown |-> TRUE, result |-> FailureResult(plannedIncrease, call.error)]

\* `await executeIncrease(...)`: the loop goes on to its next iteration when
\* every iteration it started has pushed its result.
IterationMayStart(started, results) == Len(results) = started

\* `if (!config.dryRun)`: whether executeIncrease calls the client.
CallsTransport(cfg) == ~cfg.dryRun

\* executionResults.push(result)
PushResult(results, result) == Append(results, result)

\* executeIncrease once the client's call has settled: the try block returns
\* the success result, the catch block turns the thrown error into a failure
\* result.  Nothing is thrown on to executeSequentially.
executeIncrease(plannedIncrease, call) ==
    IF call.state = "returned"
    THEN [thrown |-> FALSE, result |-> SuccessResult(plannedIncrease)]
    ELSE [thrown |-> FALSE, result |-> FailureResult(plannedIncrease, call.error)]

\* One iteration of the loop starts: in a dry run executeIncrease returns its
\* success result at once; otherwise it calls client.increaseLoan, whose first
\* transmission is sent, and awaits it.
ExecuteIteration ==
    /\ pc = "executing"
    /\ i < Len(executionPlan.plannedIncreases)
    /\ IterationMayStart(i, executionResults)
    /\ LET plannedIncrease == executionPlan.plannedIncreases[i + 1]
       IN  IF CallsTransport(config)
           THEN /\ tx' = [tx EXCEPT ![i + 1] =
                               StartCall(increaseLoan(plannedIncrease.subaccountId,
                                                      UpdateLoanRequest(plannedIncrease)))]
                /\ awaiting' = awaiting \cup {i + 1}
                /\ UNCHANGED executionResults
           ELSE /\ executionResults' = PushResult(executionResults,
                                                  SuccessResult(plannedIncrease))
                /\ UNCHANGED <<tx, awaiting>>
    /\ i' = i + 1
    /\ UNCHANGED <<calc, previousRun, env, exchange, pc, subaccounts, loanTask, loanCache, activeCurrencyList,
                   config, planTask, planningResults, executionPlan, response>>

\* The answers and the latencies the environment may give.
ResponsesNow == IF pc = "client" THEN ClientResponses ELSE HandlerResponses

LatenciesNow == IF pc = "client" THEN ClientLatencies ELSE {0}

\* The transmission in flight of request k is answered.
Respond(k) ==
    /\ k \in DOMAIN tx
    /\ tx[k].state = "inflight"
    /\ \E resp \in ResponsesNow, latency \in LatenciesNow :
           tx' = [tx EXCEPT ![k] = AfterResponse(tx[k], resp, latency, DEFAULT_RETRY_ATTEMPTS)]
    /\ UNCHANGED <<calc, previousRun, env, exchange, pc, subaccounts, loanTask, loanCache, activeCurrencyList,
                   config, planTask, planningResults, executionPlan, i, awaiting,
                   executionResults, response>>

\* The backoff sleep of request k ends and its next attempt is sent.
Wake(k) ==
    /\ k \in DOMAIN tx
    /\ tx[k].state = "sleeping"
    /\ tx' = [tx EXCEPT ![k] = AfterSleep(tx[k], DEFAULT_RETRY_ATTEMPTS)]
    /\ UNCHANGED <<calc, previousRun, env, exchange, pc, subaccounts, loanTask, loanCache, activeCurrencyList,
                   config, planTask, planningResults, executionPlan, i, awaiting,
                   executionResults, response>>

\* The awaited executeIncrease of plan entry k settles: its result is pushed
\* (or, had it thrown, the handler's catch would answer 500).
ExecuteIncreaseSettle(k) ==
    /\ k \in awaiting
    /\ tx[k].state \in {"returned", "thrown"}
    /\ LET outcome == executeIncrease(executionPlan.plannedIncreases[k], tx[k])
       IN  IF outcome.thrown
           THEN /\ pc' = "done"
                /\ response' = Respond500(tx[k].error)
                /\ UNCHANGED executionResults
           ELSE /\ executionResults' = PushResult(executionResults, outcome.result)
                /\ UNCHANGED <<pc, response>>
    /\ awaiting' = awaiting \ {k}
    /\ tx' = [tx EXCEPT ![k] = ConsumedCall]
    /\ UNCHANGED <<calc, previousRun, env, exchange, subaccounts, loanTask, loanCache, activeCurrencyList,
                   config, planTask, planningResults, executionPlan, i>>

\* The loop is over: the summary is built and the handler answers 200.
Finish ==
    /\ pc = "executing"
    /\ i = Len(executionPlan.plannedIncreases)
    /\ IterationMayStart(i, executionResults)
    /\ response' = Respond200(ExecutionSummary(subaccounts, executionPlan, executionResults))
    /\ pc' = "done"
    /\ UNCHANGED <<calc, previousRun, env, exchange, subaccounts, loanTask, loanCache, activeCurrencyList,
                   config, planTask, planningResults, executionPlan, i, awaiting,
                   executionResults, tx>>

\* A later invocation of the handler, on the same exchange data, after a dry
\* run, with DRY_RUN switched off; what the dry run planned and did is kept
\* for comparison.
InvokeAgain ==
    /\ pc = "done"
    /\ response.statusCode = 200
    /\ env.dryRun
    /\ ~previousRun.ran
    /\ previousRun' =
           [ran              |-> TRUE,
            plannedIncreases |-> executionPlan.plannedIncreases,
            success          |-> [k \in 1..Len(executionResults) |-> executionResults[k].success],
            calls            |-> Cardinality({k \in DOMAIN tx : tx[k].state # "idle"})]
    /\ env' = [env EXCEPT !.dryRun = FALSE]
    /\ pc' = "start"
    /\ subaccounts' = <<>>
    /\ loanTask' = NoEntries
    /\ loanCache' = NoEntries
    /\ activeCurrencyList' = <<>>
    /\ config' = NoConfig
    /\ planTask' = NoEntries
    /\ planningResults' = NoEntries
    /\ executionPlan' = NoPlan
    /\ i' = 0
    /\ awaiting' = {}
    /\ executionResults' = <<>>
    /\ tx' = <<>>
    /\ response' = NoResponseYet
    /\ UNCHANGED <<exchange, calc>>

\* A client on its own is asked for one request.
ClientRequest ==
    /\ pc = "client"
    /\ tx[1].state = "idle"
    /\ \E request \in ClientRequests : tx' = [tx EXCEPT ![1] = StartCall(request)]
    /\ UNCHANGED <<calc, previousRun, env, exchange, pc, subaccounts, loanTask, loanCache,
                   activeCurrencyList, config, planTask, planningResults, executionPlan, i,
                   awaiting, executionResults, response>>

Next ==
    \/ Validate
    \/ GetSubaccountsSettle
    \/ \E s \in SubaccountIds : LoanTaskSettle(s)
    \/ DiscoveryJoin
    \/ ConfigSettle
    \/ \E s \in SubaccountIds : PlanTaskSettle(s)
    \/ BuildPlan
    \/ ExecuteIteration
    \/ \E k \in DOMAIN tx : Respond(k)
    \/ \E k \in DOMAIN tx : Wake(k)
    \/ \E k \in DOMAIN tx : ExecuteIncreaseSettle(k)
    \/ Finish

\* One invocation of the handler.
Spec == Init /\ [][Next]_vars

\* One invocation in which whatever can happen next does happen: the event
\* loop runs every continuation that is ready, and every transmission is
\* answered or fails within its timeout, so no step is put off for ever.
\* It is followed for one set of holdings (a subaccount with two ZAR loans,
\* one with a loan that cannot be planned and a BTC loan), under every
\* failure of the read calls and every answer to the increases.
InitLive ==
    /\ Init
    /\ env.maxLoanRatio = Ratio(1, 1)
    /\ env.customMinIncrements = NoEntries
    /\ exchange.accounts =
           [s \in SubaccountIds |->
               IF s = "S1"
               THEN [balances |-> <<Balance("ZAR", T100)>>,
                     loans    |-> <<Loan(s, 1, "ZAR", T500), Loan(s, 2, "ZAR", T20)>>]
               ELSE [balances |-> <<Balance("BTC", TBtcBalance)>>,
                     loans    |-> <<Loan(s, 1, "BTC", TNotANumber),
                                    Loan(s, 2, "BTC", TBtcLoan)>>]]

\* The steps other than those that plan, build the plan and build the
\* summary.
HandlerSteps ==
    \/ Validate
    \/ GetSubaccountsSettle
    \/ \E s \in SubaccountIds : LoanTaskSettle(s)
    \/ DiscoveryJoin
    \/ ConfigSettle
    \/ ExecuteIteration
    \/ \E k \in DOMAIN tx : Respond(k)
    \/ \E k \in DOMAIN tx : Wake(k)
    \/ \E k \in DOMAIN tx : ExecuteIncreaseSettle(k)

\* When PlanTaskSettle, BuildPlan and Finish can be taken (their guards).
PlanTaskPending == \E s \in DOMAIN planTask : planTask[s] = "pending"

CanBuildPlan == pc = "planning" /\ PlanningSettled(planTask)

CanFinish ==
    /\ pc = "executing"
    /\ i = Len(executionPlan.plannedIncreases)
    /\ IterationMayStart(i, executionResults)

\* Weak fairness of every step.  For the three steps that compute a plan or
\* a summary it is written out, with the step's guard for its enabling
\* condition.
Fairness ==
    /\ WF_vars(HandlerSteps)
    /\ ([]<>(~PlanTaskPending) \/ []<><<\E s \in SubaccountIds : PlanTaskSettle(s)>>_vars)
    /\ ([]<>(~CanBuildPlan) \/ []<><<BuildPlan>>_vars)
    /\ ([]<>(~CanFinish) \/ []<><<Finish>>_vars)

SpecLive == InitLive /\ [][Next]_vars /\ Fairness

\* One invocation with MAX_LOAN_RATIO=0.001 and a minimum increment for ZAR
\* of 0.00000001, finer than the two decimal places the exchange accepts:
\* a subaccount with 100 ZAR and two ZAR loans, and one with 0.5 ZAR, a ZAR
\* loan and a BTC loan.
InitFineMinimum ==
    /\ env \in [valid : BOOLEAN, maxLoanRatio : {Ratio(1, 1000)}, dryRun : BOOLEAN,
                customMinIncrements : {[c \in {"ZAR"} |-> TOneUnit]}]
    /\ exchange \in Exchanges
    /\ exchange.accounts =
           [s \in SubaccountIds |->
               IF s = "S1"
               THEN [balances |-> <<Balance("ZAR", T100)>>,
                     loans    |-> <<Loan(s, 1, "ZAR", T500), Loan(s, 2, "ZAR", T20)>>]
               ELSE [balances |-> <<Balance("ZAR", T0_5), Balance("BTC", TBtcBalance)>>,
                     loans    |-> <<Loan(s, 1, "ZAR", T500), Loan(s, 2, "BTC", TBtcLoan)>>]]
    /\ HandlerStart
    /\ previousRun = NoRun
    /\ calc = NoCalc

SpecFineMinimum == InitFineMinimum /\ [][Next]_vars

\* A dry run followed by a live run on the same exchange data.
InitTwoRuns == Init /\ env.dryRun /\ env.valid

NextTwoRuns == Next \/ InvokeAgain

SpecTwoRuns == InitTwoRuns /\ [][NextTwoRuns]_vars

\* One logical request of a client on its own.
InitClient ==
    /\ env = [valid |-> TRUE, maxLoanRatio |-> Ratio(1, 1), dryRun |-> FALSE,
              customMinIncrements |-> NoEntries]
    /\ exchange = [accounts   |-> [s \in SubaccountIds |-> [balances |-> <<>>, loans |-> <<>>]],
                   currencies |-> CurrencyInfos,
                   down       |-> {}]
    /\ pc = "client"
    /\ subaccounts = <<>>
    /\ loanTask = NoEntries
    /\ loanCache = NoEntries
    /\ activeCurrencyList = <<>>
    /\ config = NoConfig
    /\ planTask = NoEntries
    /\ planningResults = NoEntries
    /\ executionPlan = NoPlan
    /\ i = 0
    /\ awaiting = {}
    /\ executionResults = <<>>
    /\ tx = <<IdleCall>>
    /\ response = NoResponseYet
    /\ previousRun = NoRun
    /\ calc = NoCalc

NextClient ==
    \/ ClientRequest
    \/ Respond(1)
    \/ Wake(1)

SpecClient == InitClient /\ [][NextClient]_vars

\* Nothing of a handler or a client runs.
NothingRuns ==
    /\ env = [valid |-> TRUE, maxLoanRatio |-> Ratio(1, 1), dryRun |-> TRUE,
              customMinIncrements |-> NoEntries]
    /\ exchange = [accounts   |-> [s \in SubaccountIds |-> [balances |-> <<>>, loans |-> <<>>]],
                   currencies |-> CurrencyInfos,
                   down       |-> {}]
    /\ pc = "function"
    /\ subaccounts = <<>>
    /\ loanTask = NoEntries
    /\ loanCache = NoEntries
    /\ activeCurrencyList = <<>>
    /\ config = NoConfig
    /\ planTask = NoEntries
    /\ planningResults = NoEntries
    /\ executionPlan = NoPlan
    /\ i = 0
    /\ awaiting = {}
    /\ executionResults = <<>>
    /\ tx = <<>>
    /\ response = NoResponseYet
    /\ previousRun = NoRun

\* planSubaccountIncreases is called with the balances the exchange returned.
PlanSubaccount ==
    /\ calc.op = "plan"
    /\ ~calc.done
    /\ calc' = [calc EXCEPT !.done = TRUE,
                            !.out = planSubaccountIncreases(calc.subaccount, TRUE, calc.balances,
                                                            calc.config, calc.loans)]
    /\ UNCHANGED <<previousRun, env, exchange, pc, subaccounts, loanTask, loanCache,
                   activeCurrencyList, config, planTask, planningResults, executionPlan, i,
                   awaiting, executionResults, tx, response>>

\* The planner of one subaccount on its own.
InitPlanner == NothingRuns /\ calc \in PlannerCases

NextPlanner == PlanSubaccount

SpecPlanner == InitPlanner /\ [][NextPlanner]_vars

\* Decimal.fromString(a).truncateToDecimalPlaces(places)
Truncate ==
    /\ calc.op = "truncate"
    /\ ~calc.done
    /\ calc' = [calc EXCEPT !.done = TRUE,
                            !.out = truncateToDecimalPlaces(parseFinancialAmount(calc.a),
                                                            calc.places)]
    /\ UNCHANGED <<previousRun, env, exchange, pc, subaccounts, loanTask, loanCache,
                   activeCurrencyList, config, planTask, planningResults, executionPlan, i,
                   awaiting, executionResults, tx, response>>

\* One truncation of a Decimal on its own.
InitDecimal == NothingRuns /\ calc \in DecimalCases

NextDecimal == Truncate

SpecDecimal == InitDecimal /\ [][NextDecimal]_vars

Rest ==
    <<previousRun, env, exchange, pc, subaccounts, loanTask, loanCache, activeCurrencyList,
      config, planTask, planningResults, executionPlan, i, awaiting, executionResults, tx,
      response>>

\* acc = acc.add(Decimal.fromString(s2, scale2)); a thrown error ends it.
Add ==
    /\ calc.op = "add"
    /\ calc.n < MaxAdds
    /\ IsDecimal(calc.acc)
    /\ calc' = [calc EXCEPT !.n = @ + 1,
                            !.acc = DecimalAdd(calc.acc, Decimal(calc.s2, calc.scale2))]
    /\ UNCHANGED Rest

\* a.isLessThan(b) and a.isGreaterThan(b)
Compare ==
    /\ calc.op = "compare"
    /\ ~calc.done
    /\ LET a == Decimal(calc.s1, calc.scale1)
           b == Decimal(calc.s2, calc.scale2)
       IN  calc' = [calc EXCEPT !.done = TRUE,
                                !.out = [isLessThan    |-> DecimalIsLessThan(a, b),
                                         isGreaterThan |-> DecimalIsGreaterThan(a, b)]]
    /\ UNCHANGED Rest

\* determineIncrements(increment, currencyInfo)
DetermineIncrements ==
    /\ calc.op = "increments"
    /\ ~calc.done
    /\ calc' = [calc EXCEPT !.done = TRUE,
                            !.out = determineIncrements(calc.increment, calc.currencyInfo)]
    /\ UNCHANGED Rest

\* The functions of decimal.ts on their own.
InitAmount == NothingRuns /\ calc \in AddCases \cup CompareCases \cup IncrementCases

NextAmount == Add \/ Compare \/ DetermineIncrements

SpecAmount == InitAmount /\ [][NextAmount]_vars

(***************************************************************************)
(* Properties                                                              *)
(***************************************************************************)
\* The plan the loop of executeSequentially walks.
Planned == executionPlan.plannedIncreases

\* A logical request that has started and whose outcome its caller has not
\* taken yet: a transmission of it is in flight, or it sleeps before a retry,
\* or it has just returned or thrown.
Active(call) == call.state \in {"inflight", "sleeping", "returned", "thrown"}

\* C1: during a run at most one mutating request is in flight: the call for
\* plan entry k is started only after the call for every earlier entry has
\* returned or thrown and its result has been recorded, and the calls are
\* started in plan order.  Retries of a request count as that request.
C1_OneMutatingRequestInFlight ==
    pc # "client" =>
        /\ Cardinality({k \in DOMAIN tx : Active(tx[k])}) <= 1
        /\ \A k \in DOMAIN tx :
               tx[k].state # "idle" =>
                   /\ k <= i
                   /\ \A j \in 1..(k - 1) :
                          /\ tx[j].state = "consumed"
                          /\ j <= Len(executionResults)
                          /\ executionResults[j].plannedIncrease = Planned[j]

\* A live run in which the call for a later plan entry is in flight, on a
\* retry, after the earlier entries were recorded.
C1_Witness ==
    /\ pc = "executing"
    /\ \E k \in DOMAIN tx :
           /\ k >= 2
           /\ tx[k].state = "inflight"
           /\ tx[k].attempt >= 1
           /\ Len(executionResults) = k - 1

\* C2: no mutating request is started before every per-subaccount planning
\* task has settled and the execution plan has been built from them.
C2_NoMutationBeforePlanIsBuilt ==
    (pc # "client" /\ \E k \in DOMAIN tx : tx[k].state # "idle") =>
        /\ pc \in {"executing", "done"}
        /\ DOMAIN planTask = Ids(subaccounts)
        /\ \A s \in DOMAIN planTask : planTask[s] = "settled"
        /\ Planned = Flatten([k \in 1..Len(subaccounts) |->
                                 planningResults[subaccounts[k].id]])

\* The first mutating request of a run is in flight, sent for the first time,
\* with the planning tasks of both subaccounts settled.
C2_Witness ==
    /\ pc = "executing"
    /\ Cardinality(DOMAIN planTask) >= 2
    /\ tx # <<>>
    /\ tx[1].state = "inflight"
    /\ tx[1].attempt = 0

\* What getSubaccountBalances reports as available for a currency.
AvailableFor(s, currency) ==
    parseFinancialAmount(TextOr(AvailableBalances(exchange.accounts[s].balances),
                                currency, <<"0">>))

\* C3: for every subaccount and currency, the increases planned for that
\* subaccount in that currency sum to no more than the balance available to
\* it, also when it holds several loans in the currency.
C3_PlannedIncreasesWithinBalance ==
    \A s \in DOMAIN planningResults :
        LET totals == TotalsByCurrency(planningResults[s])
        IN  \A c \in DOMAIN totals :
                ~isGreaterThan(parseFinancialAmount(totals[c]), AvailableFor(s, c))

\* C4: a loan-increase request is sent again only after a 429 answer: every
\* retransmission follows a 429, no transmission follows any other outcome
\* (success, a 4xx other than 429, a 5xx, a timeout or network failure), so a
\* planned increase sees at most one such outcome; the retries stay within
\* the attempt budget.
C4_ResendOnlyAfter429 ==
    pc # "client" =>
        \A k \in DOMAIN tx :
            /\ tx[k].others <= 1
            /\ tx[k].attempt <= DEFAULT_RETRY_ATTEMPTS
            /\ tx[k].state \in {"inflight", "sleeping"} => tx[k].others = 0
            /\ (tx[k].state = "inflight" /\ tx[k].attempt > 0) =>
                   tx[k].lastResponse.status = 429
            /\ tx[k].state = "sleeping" => tx[k].lastResponse.status = 429

\* A loan increase that was sent again after a 429 and then failed with
\* something else.
C4_Witness ==
    /\ pc = "executing"
    /\ \E k \in DOMAIN tx :
           /\ tx[k].state = "thrown"
           /\ tx[k].attempt >= 1
           /\ tx[k].others = 1
           /\ tx[k].lastResponse.status \in {0, 401, 500}

\* C5: when the call for a plan entry throws, the result recorded for that
\* entry has success = false and the error, the handler does not fail, and
\* the loop goes on: a run that answers 200 has attempted every entry.
C5_FailureRecordedAndQueueContinues ==
    /\ [](pc # "client" =>
            /\ (pc = "done" /\ Planned # <<>>) => response.statusCode = 200
            /\ (pc = "done" /\ response.statusCode = 200) =>
                   /\ Len(executionResults) = Len(Planned)
                   /\ ~env.dryRun => \A k \in DOMAIN tx : tx[k].state = "consumed"
            /\ (/\ pc = "executing"
                /\ \E k \in 1..Len(executionResults) : ~executionResults[k].success
                /\ Len(executionResults) = i
                /\ i < Len(Planned)) => ENABLED ExecuteIteration)
    /\ [][\A k \in DOMAIN tx :
              (tx[k].state = "thrown" /\ k \in DOMAIN tx' /\ tx'[k].state # "thrown") =>
                  /\ executionResults' =
                         Append(executionResults,
                                [plannedIncrease |-> Planned[k],
                                 success         |-> FALSE,
                                 error           |-> tx[k].error.message])
                  /\ pc' = "executing"]_vars

\* A finished run in which an entry failed and a later entry succeeded.
C5_Witness ==
    /\ pc = "done"
    /\ response.statusCode = 200
    /\ \E j, k \in 1..Len(executionResults) :
           /\ j < k
           /\ ~executionResults[j].success
           /\ executionResults[j].error # ""
           /\ executionResults[k].success

\* C6: results are recorded one per plan entry and in plan order: at every
\* moment the results are those of a prefix of the plan, result k being the
\* result of plan entry k, an entry being executed only while it has no
\* result; when the run answers 200 there is exactly one result per entry.
C6_OneResultPerEntryInPlanOrder ==
    pc # "client" =>
        /\ Len(executionResults) <= Len(Planned)
        /\ \A k \in 1..Len(executionResults) :
               executionResults[k].plannedIncrease = Planned[k]
        /\ \A k \in awaiting : k > Len(executionResults)
        /\ \A k \in DOMAIN tx : Active(tx[k]) => k > Len(executionResults)
        /\ (pc = "done" /\ response.statusCode = 200) =>
               /\ Len(executionResults) = Len(Planned)
               /\ response.summary.executionResults = executionResults

\* A finished run over three or more entries, of different loans, with a
\* failure among its results.
C6_Witness ==
    /\ pc = "done"
    /\ response.statusCode = 200
    /\ Len(Planned) >= 3
    /\ Len(executionResults) = Len(Planned)
    /\ Planned[1] # Planned[2]
    /\ \E k \in 1..Len(executionResults) : ~executionResults[k].success

\* C7: in a dry run no mutating transport call is made, and every result
\* reports success.
C7_DryRunSendsNothing ==
    (pc # "client" /\ env.dryRun) =>
        /\ \A k \in DOMAIN tx : tx[k].state = "idle"
        /\ awaiting = {}
        /\ \A k \in 1..Len(executionResults) :
               /\ executionResults[k].success
               /\ executionResults[k].error = ""

\* A finished dry run over two or more planned increases.
C7_Witness ==
    /\ env.dryRun
    /\ pc = "done"
    /\ response.statusCode = 200
    /\ Len(Planned) >= 2
    /\ Len(executionResults) = Len(Planned)

\* The success flags of the results.
SuccessFlags(results) == [k \in 1..Len(results) |-> results[k].success]

\* A live run has finished after a dry run on the same inputs.
BothRunsDone == previousRun.ran /\ pc = "done" /\ response.statusCode = 200

\* C8, as stated: a dry run and a live run on the same inputs plan the same
\* increases and report the same success flags, and the dry run issues no
\* mutating call.
C8_DryRunEqualsLiveRun ==
    BothRunsDone =>
        /\ previousRun.plannedIncreases = Planned
        /\ previousRun.success = SuccessFlags(executionResults)
        /\ previousRun.calls = 0

\* C8, as the code has it: a dry run and a live run on the same inputs plan
\* the same increases; the dry run issues no mutating call and reports
\* success for every planned increase; the live run's flag differs from the
\* dry run's exactly for the increases whose live call failed, which carry
\* the error.
C8_DryRunPlansAsLiveRun ==
    /\ previousRun.ran => previousRun.calls = 0
    /\ previousRun.ran => Len(previousRun.success) = Len(previousRun.plannedIncreases)
    /\ previousRun.ran => \A k \in 1..Len(previousRun.success) : previousRun.success[k]
    /\ BothRunsDone =>
           /\ previousRun.plannedIncreases = Planned
           /\ Len(executionResults) = Len(previousRun.success)
           /\ \A k \in 1..Len(executionResults) :
                  (executionResults[k].success # previousRun.success[k])
                      <=> (executionResults[k].error # "")

\* A live run after a dry run, over two or more increases, in which no call
\* failed.
C8_Witness ==
    /\ BothRunsDone
    /\ Len(Planned) >= 2
    /\ \A k \in DOMAIN tx : tx[k].state = "consumed"
    /\ \A k \in 1..Len(executionResults) : executionResults[k].success

\* The number a header's text stands for, read as a whole number of seconds.
HeaderSeconds(h) == ParseInt(h.text)

\* A header that carries a number.
IsNumeric(h) == h.present /\ ~HeaderSeconds(h).nan

\* The exponential backoff of an attempt.
Backoff(attempt) == Min(MIN_RETRY_DELAY_MS * Pow2(attempt), MAX_RETRY_DELAY_MS)

\* The time until the reported reset, clamped to the minimum wait.
UntilReset(h, now) == Max(HeaderSeconds(h).n * 1000 - now, MIN_RETRY_DELAY_MS)

\* The client sleeps once per retry and only after a 429, and sends the same
\* request again.
SleepsOncePerRetry ==
    /\ tx[1].state = "sleeping" => tx[1].lastResponse.status = 429
    /\ tx[1].state = "sleeping" => tx[1].sleeps = tx[1].attempt
    /\ tx[1].state = "inflight" => tx[1].sleeps = tx[1].attempt
    /\ tx[1].state # "idle" => tx[1].request \in ClientRequests

\* C9, as stated: after a 429 the wait is the Retry-After value in seconds
\* when the response carries one, else the time until the reported reset
\* clamped to the minimum wait, else the exponential backoff; the client
\* sleeps once and retries (Retry-After: 2 gives 2000 ms).
C9_WaitByHeaderPriority ==
    pc = "client" =>
        /\ SleepsOncePerRetry
        /\ tx[1].state = "sleeping" =>
               LET r == tx[1].lastResponse
               IN  tx[1].waitTimeMs =
                       IF IsNumeric(r.retryAfter)
                       THEN HeaderSeconds(r.retryAfter).n * 1000
                       ELSE IF IsNumeric(r.rateLimitReset)
                       THEN UntilReset(r.rateLimitReset, tx[1].now)
                       ELSE Backoff(tx[1].attempt)

\* A header that carries a number other than zero.
IsNonZero(h) == IsNumeric(h) /\ HeaderSeconds(h).n # 0

\* C9, as the code has it: after a 429 the wait is the Retry-After value in
\* seconds when the response carries one that reads as a number other than
\* zero, else the time until the reported reset (when that reads as a number
\* other than zero) clamped to the minimum wait, else the exponential
\* backoff; the client sleeps once and retries (Retry-After: 2 gives 2000 ms).
C9_WaitByNonZeroHeaderPriority ==
    pc = "client" =>
        /\ SleepsOncePerRetry
        /\ tx[1].state = "sleeping" =>
               LET r == tx[1].lastResponse
               IN  /\ tx[1].waitTimeMs =
                          IF IsNonZero(r.retryAfter)
                          THEN HeaderSeconds(r.retryAfter).n * 1000
                          ELSE IF IsNonZero(r.rateLimitReset)
                          THEN UntilReset(r.rateLimitReset, tx[1].now)
                          ELSE Backoff(tx[1].attempt)
                   /\ r.retryAfter = Header(<<"2">>) => tx[1].waitTimeMs = 2000

\* The client sleeps 2000 ms after a 429 with Retry-After: 2 that also
\* reports a reset time, on a retry.
C9_Witness ==
    /\ pc = "client"
    /\ tx[1].state = "sleeping"
    /\ tx[1].attempt >= 1
    /\ tx[1].lastResponse.retryAfter = Header(<<"2">>)
    /\ tx[1].lastResponse.rateLimitReset.present
    /\ tx[1].waitTimeMs = 2000

\* C10: a 401, a 403 or any other 4xx answer except 429 is never retried:
\* the request fails on it, without a sleep and without another
\* transmission, whatever remains of the attempt budget.
C10_ClientErrorsNotRetried ==
    (pc = "client" /\ tx[1].lastResponse.status \in (400..499) \ {429}) =>
        /\ tx[1].state = "thrown"
        /\ tx[1].others = 1
        /\ tx[1].sleeps = tx[1].attempt
        /\ tx[1].error = makeRequestError(tx[1].lastResponse)

\* A request with attempts left fails on a 403 whose body speaks of a rate
\* limit.
C10_Witness ==
    /\ pc = "client"
    /\ tx[1].state = "thrown"
    /\ tx[1].attempt < DEFAULT_RETRY_ATTEMPTS
    /\ tx[1].lastResponse.status = 403
    /\ tx[1].lastResponse.data = "codeRateLimit"

\* The transmissions made of the client's one logical request so far.
Transmissions == IF tx[1].state = "idle" THEN 0 ELSE tx[1].attempt + 1

\* The answer is a 5xx or there is none (a timeout, a network failure).
ServiceOrNetworkFailure(resp) == resp.status = 0 \/ resp.status \in 500..599

\* C11, as stated: a request that fails with a 5xx answer or a network
\* failure while attempts remain is retried after the exponential backoff
\* (1 s, doubling per attempt, at most 30 s).
C11_ServiceErrorsRetriedWithBackoff ==
    (/\ pc = "client"
     /\ ServiceOrNetworkFailure(tx[1].lastResponse)
     /\ tx[1].state # "inflight"
     /\ tx[1].attempt < DEFAULT_RETRY_ATTEMPTS) =>
        /\ tx[1].state = "sleeping"
        /\ tx[1].waitTimeMs = Backoff(tx[1].attempt)

\* C11, as the code has it: a request that fails with a 5xx answer or a
\* network failure is not retried, whatever attempts remain: its error is
\* thrown at once, without a wait.  The exponential backoff (1 s, doubling per
\* attempt, at most 30 s) is the wait after a 429 without a usable header.
C11_ServiceErrorsNotRetried ==
    pc = "client" =>
        /\ ServiceOrNetworkFailure(tx[1].lastResponse) =>
               /\ tx[1].state = "thrown"
               /\ tx[1].others = 1
               /\ tx[1].sleeps = tx[1].attempt
               /\ tx[1].error = makeRequestError(tx[1].lastResponse)
               /\ ~tx[1].error.rateLimitInfo.present
        /\ (/\ tx[1].state = "sleeping"
            /\ ~IsNonZero(tx[1].lastResponse.retryAfter)
            /\ ~IsNonZero(tx[1].lastResponse.rateLimitReset)) =>
               /\ tx[1].waitTimeMs = Backoff(tx[1].attempt)
               /\ tx[1].waitTimeMs \in {1000, 2000, 4000}

\* A request with attempts left, already retried after a 429, fails on a 500.
C11_Witness ==
    /\ pc = "client"
    /\ tx[1].state = "thrown"
    /\ tx[1].lastResponse.status = 500
    /\ tx[1].attempt >= 1
    /\ tx[1].attempt < DEFAULT_RETRY_ATTEMPTS

\* C12, as stated: a request that keeps being answered with 429 is
\* transmitted at most DEFAULT_RETRY_ATTEMPTS times, and then the error of
\* the last attempt is thrown.
C12_AtMostBudgetTransmissions ==
    pc = "client" =>
        /\ Transmissions <= DEFAULT_RETRY_ATTEMPTS
        /\ (tx[1].state = "thrown" /\ tx[1].lastResponse.status = 429) =>
               tx[1].error = makeRequestError(tx[1].lastResponse)

\* C12, as the code has it: a request that keeps being answered with 429 is
\* transmitted at most once more than DEFAULT_RETRY_ATTEMPTS (the first
\* transmission and that many retries); the 429 that answers the last of
\* them is thrown to the caller at once, and an earlier 429 is never thrown.
C12_AtMostBudgetRetries ==
    pc = "client" =>
        /\ Transmissions <= DEFAULT_RETRY_ATTEMPTS + 1
        /\ tx[1].sleeps <= DEFAULT_RETRY_ATTEMPTS
        /\ (tx[1].lastResponse.status = 429 /\ tx[1].state # "inflight") =>
               /\ tx[1].state \in {"sleeping", "thrown"}
               /\ tx[1].state = "thrown" <=> Transmissions = DEFAULT_RETRY_ATTEMPTS + 1
               /\ tx[1].state = "thrown" =>
                      /\ tx[1].error = makeRequestError(tx[1].lastResponse)
                      /\ tx[1].sleeps = tx[1].attempt

\* The request was answered with 429 every time and its last error, which
\* carries the headers of the last answer, is thrown.
C12_Witness ==
    /\ pc = "client"
    /\ tx[1].state = "thrown"
    /\ tx[1].lastResponse.status = 429
    /\ tx[1].lastResponse.retryAfter = Header(<<"2">>)
    /\ tx[1].error.rateLimitInfo.retryAfter = JsNum(2)
    /\ tx[1].attempt = DEFAULT_RETRY_ATTEMPTS

\* C13: every transmission, the retries of a request included, is signed
\* with a timestamp read as it is sent: the timestamp and the signature of
\* one attempt are never those of an earlier attempt of the request.
C13_EveryTransmissionFreshlySigned ==
    pc = "client" =>
        /\ tx[1].state # "idle" => Len(tx[1].sent) = tx[1].attempt
        /\ tx[1].state = "inflight" => tx[1].signed.timestamp = tx[1].now
        /\ \A k \in 1..Len(tx[1].sent) :
               /\ tx[1].sent[k].timestamp < tx[1].signed.timestamp
               /\ tx[1].sent[k].signature # tx[1].signed.signature
               /\ \A j \in 1..(k - 1) :
                      /\ tx[1].sent[j].timestamp < tx[1].sent[k].timestamp
                      /\ tx[1].sent[j].signature # tx[1].sent[k].signature

\* The third transmission of a request is in flight.
C13_Witness ==
    /\ pc = "client"
    /\ tx[1].state = "inflight"
    /\ tx[1].attempt = 2
    /\ Len(tx[1].sent) = 2

\* The request targets a subaccount other than the main account.
TargetsSubaccount(request) == request.subaccountId \notin {"", "0"}

\* C14: the signed payload is timestamp, method, path, body, in that order,
\* followed by the subaccount id if and only if the request targets a
\* subaccount other than the main account '0'; such a request carries the
\* subaccount-id header.
C14_SignedPayload ==
    (pc = "client" /\ tx[1].state # "idle") =>
        LET request == tx[1].request
            signed  == tx[1].signed
        IN  /\ signed.signature =
                   IF TargetsSubaccount(request)
                   THEN <<signed.timestamp, request.method, request.endpoint, request.body,
                          request.subaccountId>>
                   ELSE <<signed.timestamp, request.method, request.endpoint, request.body>>
            /\ TargetsSubaccount(request) => signed.subaccountHeader = request.subaccountId
            /\ \A k \in 1..Len(tx[1].sent) :
                   Len(tx[1].sent[k].signature) = Len(signed.signature)

\* A retry of a request for a subaccount is in flight, its subaccount id
\* signed last.
C14_Witness ==
    /\ pc = "client"
    /\ tx[1].state = "inflight"
    /\ tx[1].attempt >= 1
    /\ tx[1].request.method = "PUT"
    /\ tx[1].request.subaccountId = "S1"
    /\ tx[1].signed.signature[5] = "S1"

\* a < b, for two amounts of the same scale.
Below(a, b) == a.whole < b.whole \/ (a.whole = b.whole /\ a.frac < b.frac)

\* The planner has been called and has returned.
Planner == calc.op = "plan" /\ calc.done

\* The available ZAR balance the planner was given; a currency the balances
\* do not list has none.
PlannerAvailable ==
    LET listed == {k \in 1..Len(calc.balances) : calc.balances[k].currency = "ZAR"}
    IN  IF listed = {} THEN parseFinancialAmount(<<"0">>)
        ELSE parseFinancialAmount(calc.balances[CHOOSE k \in listed : TRUE].available)

PlannerMinIncrement == parseFinancialAmount(calc.config.minIncrementAmount["ZAR"])

\* C15: when the available balance of the loan's currency is below the
\* configured minimum increment, no increase is planned for the loan; a
\* currency absent from the balances counts as an available balance of 0.
C15_NoIncreaseBelowMinimumBalance ==
    (Planner /\ Below(PlannerAvailable, PlannerMinIncrement)) => calc.out = <<>>

\* Available 0.5 against a minimum increment of 1: the loan is skipped.
C15_Witness ==
    /\ Planner
    /\ calc.balances = <<Balance("ZAR", T0_5)>>
    /\ calc.config.minIncrementAmount["ZAR"] = T1
    /\ calc.loans[1].totalAmount = T500
    /\ calc.out = <<>>

\* The candidate increase: the smaller of the available balance and the
\* balance times the ratio.
PlannerCandidate ==
    LET capped == multiply(PlannerAvailable, calc.config.maxLoanRatio)
    IN  IF Below(PlannerAvailable, capped) THEN PlannerAvailable ELSE capped

\* C16: when the candidate increase, after capping by the ratio, is below the
\* minimum increment, no increase is planned for the loan.
C16_NoIncreaseBelowMinimumCandidate ==
    (Planner /\ Below(PlannerCandidate, PlannerMinIncrement)) => calc.out = <<>>

\* Balance 1, ratio 0.001, minimum increment 1: the balance passes the first
\* test, the candidate 0.001 does not pass the second.
C16_Witness ==
    /\ Planner
    /\ calc.balances = <<Balance("ZAR", T1)>>
    /\ calc.config.maxLoanRatio = Ratio(1, 1000)
    /\ calc.config.minIncrementAmount["ZAR"] = T1
    /\ calc.loans[1].totalAmount = T500
    /\ ~Below(PlannerAvailable, PlannerMinIncrement)
    /\ calc.out = <<>>

\* k times an amount, as three limbs of 10^4 (top, middle, low) counting
\* 10^-8 units.
TimesUnits(a, k) ==
    LET limb == Pow10(4)
        low  == (a.frac % limb) * k
        mid  == (a.frac \div limb) * k + low \div limb
    IN  <<a.whole * k + mid \div limb, mid % limb, low % limb>>

\* x <= y, for two such numbers.
LimbsAtMost(x, y) ==
    \/ x[1] < y[1]
    \/ x[1] = y[1] /\ x[2] < y[2]
    \/ x[1] = y[1] /\ x[2] = y[2] /\ x[3] <= y[3]

\* C17: a planned increase is at most min(b, b * r), b the available balance
\* and r the ratio, counted in the smallest internal unit; with r = 1 the
\* candidate is b itself.
C17_IncreaseAtMostBalanceTimesRatio ==
    Planner =>
        /\ \A k \in 1..Len(calc.out) :
               LET increase == parseFinancialAmount(calc.out[k].increaseAmount)
                   ratio    == calc.config.maxLoanRatio
               IN  /\ ~Below(PlannerAvailable, increase)
                   /\ LimbsAtMost(TimesUnits(increase, ratio.den),
                                  TimesUnits(PlannerAvailable, ratio.num))
        /\ calc.config.maxLoanRatio = Ratio(1, 1) => PlannerCandidate = PlannerAvailable

\* C18: a subaccount with ZAR 100 available and one open ZAR loan of 500,
\* minimum increment 1: at ratio 0.8 exactly one increase is planned, of 80,
\* to a new amount of 580; at ratio 1.0 the increase is 100.
C18_WorkedExample ==
    ( /\ Planner
      /\ calc.balances = <<Balance("ZAR", T100)>>
      /\ calc.loans = <<Loan("S1", 1, "ZAR", T500)>>
      /\ calc.config.minIncrementAmount["ZAR"] = T1 ) =>
        /\ calc.config.maxLoanRatio = Ratio(4, 5) =>
               /\ Len(calc.out) = 1
               /\ calc.out[1].loanId = calc.loans[1].loanId
               /\ calc.out[1].currentAmount = <<"5", "0", "0">>
               /\ calc.out[1].increaseAmount = <<"8", "0">>
               /\ calc.out[1].newAmount = <<"5", "8", "0">>
        /\ calc.config.maxLoanRatio = Ratio(1, 1) =>
               /\ Len(calc.out) = 1
               /\ calc.out[1].increaseAmount = <<"1", "0", "0">>

\* The example at ratio 0.8 has been planned.
C18_Witness ==
    /\ Planner
    /\ calc.balances = <<Balance("ZAR", T100)>>
    /\ calc.loans = <<Loan("S1", 1, "ZAR", T500)>>
    /\ calc.config.minIncrementAmount["ZAR"] = T1
    /\ calc.config.maxLoanRatio = Ratio(4, 5)
    /\ Len(calc.out) = 1

\* a + b in 10^-8 units.
SumOf(a, b) ==
    [whole |-> a.whole + b.whole + (a.frac + b.frac) \div Pow10(DEFAULT_SCALE),
     frac  |-> (a.frac + b.frac) % Pow10(DEFAULT_SCALE),
     scale |-> DEFAULT_SCALE]

\* C19: in every planned increase the new amount is the current amount plus
\* the increase amount exactly, the increase amount being the truncated
\* increase that is later sent to the exchange.
C19_NewAmountIsCurrentPlusIncrease ==
    Planner =>
        \A k \in 1..Len(calc.out) :
            LET planned == calc.out[k]
            IN  /\ parseFinancialAmount(planned.newAmount)
                       = SumOf(parseFinancialAmount(planned.currentAmount),
                               parseFinancialAmount(planned.increaseAmount))
                /\ UpdateLoanRequest(planned)[2] = planned.increaseAmount

\* An increase of 0.019 is planned after its truncation to 0.01.
C19_Witness ==
    /\ Planner
    /\ calc.balances = <<Balance("ZAR", T0_019)>>
    /\ calc.config.maxLoanRatio = Ratio(1, 1)
    /\ Len(calc.out) = 1
    /\ calc.out[1].increaseAmount = T0_01
    /\ calc.out[1].newAmount = <<"5", "0", "0", ".", "0", "1">>

FractionDigits(text) == IF FirstDot(text) = 0 THEN 0 ELSE Len(text) - FirstDot(text)

\* C21: the increase amount of every planned increase has at most as many
\* fractional digits as the exchange accepts for the loan's currency
\* (config.currencyDecimalPlaces), for every accepted number, 0 included.
C21_IncreaseWithinAcceptedPlaces ==
    Planner =>
        \A k \in 1..Len(calc.out) :
            FractionDigits(calc.out[k].increaseAmount)
                <= calc.config.currencyDecimalPlaces[calc.out[k].currency]

\* createExecutionPlan has just returned its plan to the handler (the plan
\* is not changed afterwards).
PlanIsBuilt == pc = "executing" /\ i = 0

\* The loans of a list whose amount is a number: those the planner can plan
\* without an exception.
RECURSIVE SoundLoans(_)
SoundLoans(loans) ==
    IF loans = <<>> THEN <<>>
    ELSE (IF IsDecimal(parseFinancialAmount(Head(loans).totalAmount))
          THEN <<Head(loans)>> ELSE <<>>) \o SoundLoans(Tail(loans))

\* What the run would plan were the loans that throw not among the open
\* loans: the configuration of the currencies of the other loans, and the
\* increases of each subaccount for its other loans.
PlanWithoutThrowingLoans ==
    LET sound(k)  == SoundLoans(MapGetOrEmpty(loanCache, subaccounts[k].id))
        active    == Distinct(Flatten([k \in 1..Len(subaccounts) |->
                         [m \in 1..Len(sound(k)) |-> sound(k)[m].currency]]))
        reference == getLoanManagementConfig(env, Up(<<"currencies", "">>),
                                             exchange.currencies, active)
    IN  Flatten([k \in 1..Len(subaccounts) |->
            planSubaccountIncreases(subaccounts[k], Up(<<"balances", subaccounts[k].id>>),
                                    exchange.accounts[subaccounts[k].id].balances,
                                    reference, sound(k))])

\* C22: an exception thrown while planning one loan skips that loan only:
\* every other loan, of the same and of every other subaccount, is planned
\* as it would be were the failing loan absent.
C22_ThrowingLoanSkippedAlone ==
    PlanIsBuilt =>
        /\ executionPlan.plannedIncreases = PlanWithoutThrowingLoans
        /\ \A k \in 1..Len(Planned) :
               \E s \in DOMAIN loanCache : \E m \in 1..Len(loanCache[s]) :
                   /\ loanCache[s][m].loanId = Planned[k].loanId
                   /\ IsDecimal(parseFinancialAmount(loanCache[s][m].totalAmount))

\* A subaccount's first loan threw and its second loan is in the plan, next
\* to an increase of the other subaccount.
C22_Witness ==
    /\ PlanIsBuilt
    /\ \E s \in DOMAIN loanCache :
           /\ Len(loanCache[s]) = 2
           /\ loanCache[s][1].totalAmount = TNotANumber
           /\ \E k \in 1..Len(Planned) : Planned[k].loanId = loanCache[s][2].loanId
           /\ \E k \in 1..Len(Planned) : Planned[k].subaccountId # s

\* The planned increases of one subaccount, in plan order.
RECURSIVE PlannedFor(_, _)
PlannedFor(increases, s) ==
    IF increases = <<>> THEN <<>>
    ELSE (IF Head(increases).subaccountId = s THEN <<Head(increases)>> ELSE <<>>)
            \o PlannedFor(Tail(increases), s)

\* The configuration of a run in which every subaccount's loans are fetched.
ConfigOfAllLoans ==
    getLoanManagementConfig(env, Up(<<"currencies", "">>), exchange.currencies,
        Distinct(Flatten([k \in 1..Len(subaccounts) |->
            LET openLoans == exchange.accounts[subaccounts[k].id].loans
            IN  [m \in 1..Len(openLoans) |-> openLoans[m].currency]])))

\* C23: when the loans or the balances of one subaccount cannot be fetched,
\* the run is not aborted: that subaccount contributes no planned increase,
\* and its siblings' increases are planned as they are when nothing fails.
C23_FetchFailureIsolated ==
    /\ PlanIsBuilt =>
           \A s \in SubaccountIds :
               IF Up(<<"loans", s>>) /\ Up(<<"balances", s>>)
               THEN PlannedFor(Planned, s)
                        = planSubaccountIncreases(SubaccountOf(s), TRUE,
                                                  exchange.accounts[s].balances,
                                                  ConfigOfAllLoans, exchange.accounts[s].loans)
               ELSE PlannedFor(Planned, s) = <<>>
    /\ (pc = "done" /\ env.valid /\ Up(<<"subaccounts", "">>)) => response.statusCode = 200

\* The balances of a subaccount that holds a loan could not be fetched and
\* the other subaccount's increase is in the plan; the run ended with 200.
C23_Witness ==
    /\ pc = "done"
    /\ response.statusCode = 200
    /\ \E s \in SubaccountIds :
           /\ ~Up(<<"balances", s>>)
           /\ exchange.accounts[s].loans # <<>>
           /\ exchange.accounts[s].balances = <<Balance("ZAR", T100)>>
           /\ PlannedFor(Planned, s) = <<>>
           /\ Planned # <<>>

\* The handler has returned its summary.
Returned == pc = "done" /\ response.statusCode = 200

\* The open loans the run found, and how many of them throw when planned.
AllLoans == Flatten([k \in 1..Len(subaccounts) |-> MapGetOrEmpty(loanCache, subaccounts[k].id)])

ThrowingLoans == Len(AllLoans) - Len(SoundLoans(AllLoans))

\* The planned increases whose execution failed.
FailedResults == {k \in 1..Len(executionResults) : ~executionResults[k].success}

\* C24 as stated: of N loans of which loan k throws, during planning or
\* during execution, the summary accounts for the N-1 others and holds one
\* recorded error for loan k.
C24_OneErrorPerThrowingLoan ==
    Returned =>
        Len(response.summary.errors) = ThrowingLoans + Cardinality(FailedResults)

\* C24, as the code has it: a loan that throws during execution is among the
\* processed loans and has one recorded error; a loan that throws during
\* planning is skipped and leaves nothing in the summary, neither a result
\* nor an error.  The other loans are accounted for as usual.
C24_ErrorRecordedForExecutionOnly ==
    Returned =>
        LET summary == response.summary
        IN  /\ Len(summary.errors) = Cardinality(FailedResults)
            /\ \A k \in FailedResults :
                   /\ executionResults[k].error # ""
                   /\ \E j \in 1..Len(summary.errors) :
                          summary.errors[j] = executionResults[k].error
            /\ summary.totalLoansProcessed = Len(Planned)
            /\ summary.totalLoansProcessed <= Len(AllLoans) - ThrowingLoans
            /\ summary.totalLoansIncreased = Len(Planned) - Cardinality(FailedResults)
            /\ \A m \in 1..Len(AllLoans) :
                   ~IsDecimal(parseFinancialAmount(AllLoans[m].totalAmount)) =>
                       \A k \in 1..Len(executionResults) :
                           executionResults[k].plannedIncrease.loanId # AllLoans[m].loanId

\* A run with a loan that threw during planning and a loan whose increase
\* failed: one error is recorded.
C24_Witness ==
    /\ Returned
    /\ ThrowingLoans = 1
    /\ Cardinality(FailedResults) = 1
    /\ Len(response.summary.errors) = 1
    /\ response.summary.totalLoansProcessed >= 2

\* The sum, in 10^-8 units, of the increase amounts of one currency.
RECURSIVE SumOfIncreases(_, _)
SumOfIncreases(increases, currency) ==
    IF increases = <<>> THEN [whole |-> 0, frac |-> 0, scale |-> DEFAULT_SCALE]
    ELSE LET rest == SumOfIncreases(Tail(increases), currency)
         IN  IF Head(increases).currency = currency
             THEN SumOf(parseFinancialAmount(Head(increases).increaseAmount), rest)
             ELSE rest

\* C25: for every currency, the plan's totalIncreasesByCurrency entry is the
\* exact fixed-point sum of the increase amounts of the plan's increases in
\* that currency, and a currency has an entry only if the plan holds an
\* increase in it.
C25_TotalsAreExactSums ==
    PlanIsBuilt =>
        LET totals == executionPlan.totalIncreasesByCurrency
        IN  /\ DOMAIN totals = {Planned[k].currency : k \in 1..Len(Planned)}
            /\ \A c \in DOMAIN totals :
                   parseFinancialAmount(totals[c]) = SumOfIncreases(Planned, c)

\* A plan with three increases in ZAR (100, 100 and 0.5) and one in BTC.
C25_Witness ==
    /\ PlanIsBuilt
    /\ DOMAIN executionPlan.totalIncreasesByCurrency = {"ZAR", "BTC"}
    /\ Cardinality({k \in 1..Len(Planned) : Planned[k].currency = "ZAR"}) >= 3
    /\ executionPlan.totalIncreasesByCurrency["ZAR"] = <<"2", "0", "0", ".", "5">>

\* Planning has been done and has yielded no increase.
NothingPlanned == planTask # NoEntries /\ AllSettled(planTask) /\ pc = "done"
                      /\ Planned = <<>>

\* C26: when planning yields no increase at all, also when every subaccount
\* failed to produce any, the handler returns status 200 with a well-formed
\* summary; the empty plan is executed as zero mutating calls and is not
\* reported as an error.
C26_EmptyPlanIsNotAnError ==
    NothingPlanned =>
        /\ response.statusCode = 200
        /\ response.success
        /\ response.error = ""
        /\ tx = <<>>
        /\ executionResults = <<>>
        /\ LET summary == response.summary
           IN  /\ summary.totalSubaccounts = Len(subaccounts)
               /\ summary.processedSubaccounts = Len(subaccounts)
               /\ summary.totalLoansProcessed = 0
               /\ summary.totalLoansIncreased = 0
               /\ summary.errors = <<>>
               /\ summary.executionResults = <<>>
               /\ summary.executionPlan.plannedIncreases = <<>>
               /\ summary.executionPlan.totalIncreasesByCurrency = NoEntries
               /\ \A k \in 1..Len(summary.results) :
                      /\ summary.results[k].subaccountId = subaccounts[k].id
                      /\ summary.results[k].processedLoans = 0
                      /\ summary.results[k].errors = <<>>

\* Every subaccount holds a loan and a balance, the balances of none could
\* be fetched, and the handler has answered 200.
C26_Witness ==
    /\ NothingPlanned
    /\ response.statusCode = 200
    /\ ~env.dryRun
    /\ \A s \in SubaccountIds :
           /\ ~Up(<<"balances", s>>)
           /\ exchange.accounts[s].loans # <<>>

\* C27: the handler returns status 400 exactly when the validation of the
\* configuration fails, status 200 with success = true when the run
\* completes, and status 500 for any other failure; the 500 body is the same
\* fixed message whatever the error was.
C27_StatusByOutcome ==
    pc = "done" =>
        /\ response.statusCode \in {200, 400, 500}
        /\ response.statusCode = 400 <=> ~env.valid
        /\ response.statusCode = 500 <=> (env.valid /\ ~Up(<<"subaccounts", "">>))
        /\ response.statusCode = 200 <=> (env.valid /\ Up(<<"subaccounts", "">>))
        /\ response.statusCode = 200 =>
               /\ response.success
               /\ response.summary.executionResults = executionResults
               /\ Len(executionResults) = Len(Planned)
        /\ response.statusCode = 400 =>
               ~response.success /\ response.error = "Configuration validation failed"
        /\ response.statusCode = 500 =>
               /\ ~response.success
               /\ response.error = "Internal server error occurred during execution"
               /\ response.summary = <<>>

\* getSubaccounts failed in a validly configured run, which is answered 500.
C27_Witness ==
    /\ pc = "done"
    /\ env.valid
    /\ ~Up(<<"subaccounts", "">>)
    /\ response.statusCode = 500

\* No call of the client has been made: the handler is before its first call
\* or has returned without one (each call in flight is a state of its own,
\* and each call made leaves its task or its request behind).
NoNetworkCallMade ==
    /\ pc \in {"start", "done"}
    /\ subaccounts = <<>>
    /\ loanTask = NoEntries
    /\ planTask = NoEntries
    /\ tx = <<>>

\* With a configuration that fails validation (missing credentials are a
\* validation failure) the run halts before any network call.
HaltsBeforeAnyCall ==
    ~env.valid => (NoNetworkCallMade /\ (pc = "done" => response.statusCode = 400))

\* C28 as stated: only a failure to validate the configuration or to obtain
\* credentials halts the whole run, and it does so before any network call
\* is made.
C28_OnlyValidationHalts ==
    /\ HaltsBeforeAnyCall
    /\ (pc = "done" /\ response.statusCode # 200) => ~env.valid

\* C28, as the code has it: a failure to validate the configuration halts
\* the run before any network call is made; the one other failure that halts
\* the whole run is that of the getSubaccounts call, after that call.
C28_ValidationHaltsBeforeAnyCall ==
    /\ HaltsBeforeAnyCall
    /\ (pc = "done" /\ response.statusCode # 200) =>
           (~env.valid \/ ~Up(<<"subaccounts", "">>))
    /\ (pc = "done" /\ env.valid /\ ~Up(<<"subaccounts", "">>)) =>
           (response.statusCode = 500 /\ loanTask = NoEntries /\ tx = <<>>)

\* An invalidly configured run over subaccounts that hold loans has ended.
C28_Witness ==
    /\ pc = "done"
    /\ ~env.valid
    /\ response.statusCode = 400
    /\ \A s \in SubaccountIds : exchange.accounts[s].loans # <<>>
    /\ NoNetworkCallMade

\* The execution results of one subaccount, and the successful ones.
ResultsOf(s) ==
    {k \in 1..Len(executionResults) : executionResults[k].plannedIncrease.subaccountId = s}

Succeeded == {k \in 1..Len(executionResults) : executionResults[k].success}

\* C29: in every returned summary the counts are exact: the loans processed
\* are the execution results, the loans increased the successful ones, the
\* global error list has one entry per failed result, the rollups partition
\* the results by subaccount, and no more loans are increased than processed.
C29_SummaryCountsExact ==
    Returned =>
        LET summary == response.summary
        IN  /\ summary.totalLoansProcessed = Len(executionResults)
            /\ summary.totalLoansIncreased = Cardinality(Succeeded)
            /\ Len(summary.errors) = Cardinality(FailedResults)
            /\ summary.totalLoansIncreased <= summary.totalLoansProcessed
            /\ summary.totalSubaccounts = Len(subaccounts)
            /\ Len(summary.results) = Len(subaccounts)
            /\ \A k \in 1..Len(summary.results) :
                   LET rollup == summary.results[k]
                   IN  /\ rollup.subaccountId = subaccounts[k].id
                       /\ rollup.processedLoans = Cardinality(ResultsOf(rollup.subaccountId))
                       /\ rollup.increasedLoans
                              = Cardinality(ResultsOf(rollup.subaccountId) \cap Succeeded)
                       /\ Len(rollup.errors)
                              = Cardinality(ResultsOf(rollup.subaccountId) \cap FailedResults)
            /\ \A k \in 1..Len(executionResults) :
                   Cardinality({j \in 1..Len(summary.results) :
                       summary.results[j].subaccountId
                           = executionResults[k].plannedIncrease.subaccountId}) = 1

\* A summary over both subaccounts, with increases that succeeded and
\* increases that failed in each.
C29_Witness ==
    /\ Returned
    /\ \A s \in SubaccountIds :
           /\ ResultsOf(s) \cap Succeeded # {}
           /\ ResultsOf(s) \cap FailedResults # {}
    /\ response.summary.totalLoansProcessed = 4
    /\ response.summary.totalLoansIncreased = 2

\* C30: the run always terminates with a response: every transport call
\* being answered or failing within its timeout, the retry loop, the
\* planning fan-in and the sequential execution loop finish, and the handler
\* eventually returns a status and a body.
C30_RunTerminatesWithResponse ==
    <>(pc = "done" /\ response.statusCode \in {200, 400, 500})

\* A run has returned after an increase that used up its retries and an
\* increase that succeeded.
C30_Witness ==
    /\ pc = "done"
    /\ response.statusCode = 200
    /\ \E k \in FailedResults : executionResults[k].error = "VALR API Error: Rate limit exceeded"
    /\ Succeeded # {}

\* Whether the text is a decimal numeral: digits with at most one '.'
\* among them, and at least one digit.
IsNumeral(text) ==
    /\ \A k \in 1..Len(text) : IsDigit(text[k]) \/ text[k] = "."
    /\ Cardinality({k \in 1..Len(text) : text[k] = "."}) <= 1
    /\ \E k \in 1..Len(text) : IsDigit(text[k])

\* The value of a numeral with at most `scale` fractional digits, read
\* digit by digit.
ExactAmount(text, scale) ==
    LET dot  == FirstDot(text)
        int  == IF dot = 0 THEN text ELSE SubSeq(text, 1, dot - 1)
        frac == IF dot = 0 THEN <<>> ELSE SubSeq(text, dot + 1, Len(text))
    IN  Normalize(DigitsToInt(int), DigitsToInt(frac) * Pow10(scale - Len(frac)), scale)

AtScale(text, scale) == IsNumeral(text) /\ FractionDigits(text) <= scale

\* C31: for amounts s1 and s2 at the same scale, adding is commutative and
\* exact: after s2 was added n times to s1 the sum is s1 + n * s2 to the last
\* digit of the scale, and adding the other way round gives the same.
C31_AddCommutativeAndExact ==
    (/\ calc.op = "add"
     /\ calc.n >= 1
     /\ calc.scale1 = calc.scale2
     /\ AtScale(calc.s1, calc.scale1)
     /\ AtScale(calc.s2, calc.scale2))
    => LET a == ExactAmount(calc.s1, calc.scale1)
           b == Decimal(calc.s2, calc.scale2)
       IN  /\ calc.acc = Normalize(a.whole + calc.n * b.whole, a.frac + calc.n * b.frac,
                                   calc.scale1)
           /\ DecimalAdd(calc.acc, b) = DecimalAdd(b, calc.acc)
           /\ b = ExactAmount(calc.s2, calc.scale2)

\* C32: add, isLessThan and isGreaterThan throw the scale-mismatch error
\* whenever the two amounts have different scales and return nothing then;
\* on equal scales each of them returns its value.
C32_ScaleMismatchFails ==
    /\ (calc.op = "add" /\ calc.n >= 1)
       => IF calc.scale1 # calc.scale2
          THEN calc.acc = ScaleMismatch /\ calc.n = 1
          ELSE IsDecimal(calc.acc)
    /\ (calc.op = "compare" /\ calc.done)
       => IF calc.scale1 # calc.scale2
          THEN calc.out.isLessThan = CompareMismatch /\ calc.out.isGreaterThan = CompareMismatch
          ELSE /\ calc.out.isLessThan.value \in BOOLEAN
               /\ calc.out.isGreaterThan.value \in BOOLEAN

C32_Witness ==
    /\ calc.op = "compare"
    /\ calc.done
    /\ calc.s1 = T0_5
    /\ calc.s2 = T0_5
    /\ calc.scale1 = 2
    /\ calc.scale2 = DEFAULT_SCALE
    /\ calc.out = [isLessThan |-> CompareMismatch, isGreaterThan |-> CompareMismatch]

\* C33: parsing fails for every text that is no decimal numeral, a number
\* followed by other characters included, and the failure costs the one loan
\* its plan and nothing else: the planner returns, without an increase for a
\* loan whose amount is such a text.
C33_MalformedAmountFailsThatLoan ==
    (/\ calc.op = "plan"
     /\ calc.done
     /\ ~IsNumeral(calc.loans[1].totalAmount))
    => /\ ~IsDecimal(parseFinancialAmount(calc.loans[1].totalAmount))
       /\ calc.out = <<>>

\* C34: determineIncrements returns the increment text unchanged as
\* minIncrement; decimalPlaces is the currency's withdrawalDecimalPlaces
\* whenever currencyInfo is given (0 and a number other than the text's
\* precision included), and else the number of characters after the decimal
\* point of the text, 0 when there is no point or nothing after it.
C34_IncrementsAsGiven ==
    (calc.op = "increments" /\ calc.done)
    => /\ calc.out.minIncrement = calc.increment
       /\ calc.currencyInfo.found
          => calc.out.decimalPlaces = calc.currencyInfo.withdrawalDecimalPlaces
       /\ (~calc.currencyInfo.found
           /\ Cardinality({k \in 1..Len(calc.increment) : calc.increment[k] = "."}) <= 1)
          => calc.out.decimalPlaces = FractionDigits(calc.increment)

C34_Witness ==
    /\ calc.op = "increments"
    /\ calc.done
    /\ calc.increment = T1_123
    /\ calc.currencyInfo = [found |-> TRUE, withdrawalDecimalPlaces |-> 0]
    /\ calc.out = [minIncrement |-> T1_123, decimalPlaces |-> 0]

IncreaseAmounts(increases) == [k \in DOMAIN increases |-> increases[k].increaseAmount]

\* What the planner plans for the same subaccount, balances and policy when
\* the loan's amount is totalAmount.
PlannedWithLoanAmount(totalAmount) ==
    planSubaccountIncreases(calc.subaccount, TRUE, calc.balances, calc.config,
                            <<[calc.loans[1] EXCEPT !.totalAmount = totalAmount]>>)

\* C35: the ratio caps the available balance and nothing else: the planned
\* increase amount does not depend on the loan's current amount, so a loan
\* that differs only in totalAmount gets the same increaseAmount under the
\* same balance, ratio and currency policy.
C35_IncreaseIndependentOfLoanAmount ==
    (calc.op = "plan" /\ calc.done /\ IsDecimal(parseFinancialAmount(calc.loans[1].totalAmount)))
    => \A totalAmount \in PlannerLoanAmounts :
          IsDecimal(parseFinancialAmount(totalAmount))
          => IncreaseAmounts(PlannedWithLoanAmount(totalAmount)) = IncreaseAmounts(calc.out)

C35_Witness ==
    /\ calc.op = "plan"
    /\ calc.done
    /\ calc.loans[1].totalAmount = TBtcLoan
    /\ calc.config.maxLoanRatio = Ratio(1, 2)
    /\ IncreaseAmounts(calc.out) = << <<"5", "0">> >>
    /\ IncreaseAmounts(PlannedWithLoanAmount(T500)) = << <<"5", "0">> >>

\* The plan createExecutionPlan returned, computed again from what the
\* planning tasks returned.
PlanAsBuilt ==
    ExecutionPlan(Flatten([k \in 1..Len(subaccounts) |->
                              MapGetOrEmpty(planningResults, subaccounts[k].id)]))

\* C36: the executor never changes the plan: no step of executeSequentially
\* changes the planned increases, their order, their fields or the totals,
\* during and after the execution the plan is the plan createExecutionPlan
\* built, and that plan is the one the summary reports.
C36_PlanNeverMutated ==
    /\ [](pc \in {"executing", "done"} =>
            /\ executionPlan = PlanAsBuilt
            /\ (response.statusCode = 200 => response.summary.executionPlan = PlanAsBuilt))
    /\ [][pc = "executing" => executionPlan' = executionPlan]_vars

\* A live run over four planned increases is over, with a failure among its
\* results, and reports the plan it was given.
C36_Witness ==
    /\ Returned
    /\ Len(executionPlan.plannedIncreases) = 4
    /\ Len(executionResults) = 4
    /\ FailedResults # {}
    /\ Succeeded # {}
    /\ response.summary.executionPlan = executionPlan

\* C37: every planned increase the planner emits has an increase amount
\* above zero and not below the currency's minimum increment: truncation
\* never takes an accepted candidate below the minimum or down to zero.
C37_IncreaseAtLeastMinimum ==
    Planner =>
        \A k \in 1..Len(calc.out) :
            LET increase == parseFinancialAmount(calc.out[k].increaseAmount)
            IN  /\ Below(parseFinancialAmount(<<"0">>), increase)
                /\ ~Below(increase, PlannerMinIncrement)

\* What the exchange's data and the environment give when the subaccounts
\* are taken one after the other in list order: the loans fetched, the
\* active currencies, the configuration and each subaccount's increases.
LoansInListOrder ==
    [k \in 1..Len(SubaccountList) |->
        IF Up(<<"loans", SubaccountList[k].id>>)
        THEN exchange.accounts[SubaccountList[k].id].loans ELSE <<>>]

CurrenciesInListOrder ==
    Distinct(Flatten([k \in 1..Len(SubaccountList) |->
        [m \in 1..Len(LoansInListOrder[k]) |-> LoansInListOrder[k][m].currency]]))

PlanInListOrder ==
    LET reference == getLoanManagementConfig(env, Up(<<"currencies", "">>),
                                             exchange.currencies, CurrenciesInListOrder)
    IN  Flatten([k \in 1..Len(SubaccountList) |->
            planSubaccountIncreases(SubaccountList[k], Up(<<"balances", SubaccountList[k].id>>),
                                    exchange.accounts[SubaccountList[k].id].balances,
                                    reference, LoansInListOrder[k])])

\* Where a planned increase stands: its subaccount's place in the list of
\* subaccounts and its loan's place in the subaccount's list of loans.
PlaceOf(planned) ==
    LET k == CHOOSE k \in 1..Len(SubaccountList) : SubaccountList[k].id = planned.subaccountId
        m == CHOOSE m \in 1..Len(LoansInListOrder[k]) :
                 LoansInListOrder[k][m].loanId = planned.loanId
    IN  <<k, m>>

\* C38: the plan does not depend on the order in which the concurrent
\* discovery and planning tasks complete: whatever the order, the active
\* currencies and the planned increases are those of the subaccounts taken in
\* list order, the increases grouped by subaccount in list order and, within
\* a subaccount, in the order of its loans.
C38_PlanIndependentOfInterleaving ==
    /\ pc = "config" => activeCurrencyList = CurrenciesInListOrder
    /\ PlanIsBuilt =>
           /\ Planned = PlanInListOrder
           /\ \A j, k \in 1..Len(Planned) :
                  j < k => \/ PlaceOf(Planned[j])[1] < PlaceOf(Planned[k])[1]
                           \/ /\ PlaceOf(Planned[j])[1] = PlaceOf(Planned[k])[1]
                              /\ PlaceOf(Planned[j])[2] < PlaceOf(Planned[k])[2]

\* A plan of four increases, two of each subaccount, has been built.
C38_Witness ==
    /\ PlanIsBuilt
    /\ Len(Planned) = 4
    /\ [k \in 1..4 |-> PlaceOf(Planned[k])] = << <<1, 1>>, <<1, 2>>, <<2, 1>>, <<2, 2>> >>

IncreasesOf(results) == [k \in 1..Len(results) |-> results[k].plannedIncrease]

Executed ==
    IncreasesOf(Select(executionResults,
                       [k \in 1..Len(executionResults) |-> executionResults[k].success]))

\* The sum over the subaccounts' rollups of totalAmountIncreased[currency],
\* a rollup without an entry for the currency adding nothing.
RECURSIVE ReportedIncrease(_, _)
ReportedIncrease(rollups, currency) ==
    IF rollups = <<>> THEN [whole |-> 0, frac |-> 0, scale |-> DEFAULT_SCALE]
    ELSE SumOf(parseFinancialAmount(TextOr(Head(rollups).totalAmountIncreased, currency,
                                           <<"0">>)),
               ReportedIncrease(Tail(rollups), currency))

\* C40: reported money is executed money: for every currency the rollups'
\* totalAmountIncreased add up to the sum of the increase amounts of the
\* results that succeeded, failed increases adding nothing, and that sum is
\* the plan's total of the currency exactly when every increase of the
\* currency succeeded.
C40_ReportedMatchesExecuted ==
    Returned =>
        \A currency \in {"ZAR", "BTC"} :
            LET reported == ReportedIncrease(response.summary.results, currency)
                planned  == parseFinancialAmount(
                                TextOr(executionPlan.totalIncreasesByCurrency, currency, <<"0">>))
            IN  /\ reported = SumOfIncreases(Executed, currency)
                /\ reported = planned
                   <=> \A k \in FailedResults :
                           executionResults[k].plannedIncrease.currency # currency
=============================================================================
